---- MODULE Spec2Model ----
(***************************************************************************)
(* A model of the DNSBunch backend: the check orchestrator                 *)
(* DNSChecker.run_all_checks and its HTTP entry point check_dns            *)
(* (specification Spec), and the NS checker DNSChecker._check_ns_records   *)
(* (specification SpecNS).                                                 *)
(*                                                                         *)
(* Text is modelled as a sequence of one-character strings, so that        *)
(* lower(), strip(), split() and the regular expressions of the source are *)
(* computed, not assumed.                                                  *)
(***************************************************************************)
EXTENDS Naturals, Integers, Sequences, FiniteSets, TLC

VARIABLES
    pc,             \* where the engine is: new, constructed, running, returned, cancelled, responded
    via,            \* how the engine was entered: none, direct (DNSChecker API), http (check_dns)
    domain,         \* DNSChecker.domain
    requested,      \* the requested_checks argument: [given, list]
    checks_to_run,  \* run_all_checks: checks_to_run
    i,              \* run_all_checks: position of the for loop in checks_to_run (1-based)
    results,        \* run_all_checks: results (status, checks in insertion order, summary)
    calls,          \* history: every checker invocation, in order
    base_path,      \* environment: how DNS lookups go in this run unless varied
    varied,         \* environment: number of checkers whose lookups left base_path
    elapsed,        \* environment: seconds since asyncio.wait_for started the run
    timeout,        \* check_dns: the timeout given to asyncio.wait_for (0: no deadline)
    response,       \* check_dns: the HTTP response
    ns,             \* the state of one _check_ns_records call (specification SpecNS)
    chk,            \* the state of one call of a record checker (specification SpecChecker)
    app             \* app.py: rate_limit_store, blocked_ips, csrf_tokens (specification SpecApp)

vars == <<pc, via, domain, requested, checks_to_run, i, results, calls,
          base_path, varied, elapsed, timeout, response, ns, chk, app>>

(***************************************************************************)
(* Bounds of the model.                                                    *)
(***************************************************************************)
MaxReq == 2        \* longest requested_checks list explored
MaxVaried == 1     \* checkers of one run whose lookups differ from the run's baseline

(***************************************************************************)
(* Text helpers.                                                           *)
(***************************************************************************)
UpperCase == <<"A","B","C","D","E","F","G","H","I","J","K","L","M",
               "N","O","P","Q","R","S","T","U","V","W","X","Y","Z">>
LowerCase == <<"a","b","c","d","e","f","g","h","i","j","k","l","m",
               "n","o","p","q","r","s","t","u","v","w","x","y","z">>
Digits == {"0","1","2","3","4","5","6","7","8","9"}
Letters == {UpperCase[k] : k \in 1..26} \cup {LowerCase[k] : k \in 1..26}
AlNum == Letters \cup Digits
Whitespace == {" ", "\t", "\n", "\r"}

LowerChar(c) ==
    IF \E k \in 1..26 : UpperCase[k] = c
    THEN LowerCase[CHOOSE k \in 1..26 : UpperCase[k] = c]
    ELSE c

\* str.lower()
lower(s) == [k \in 1..Len(s) |-> LowerChar(s[k])]

\* str.strip(): drop leading and trailing whitespace
strip(s) ==
    LET keep == {k \in 1..Len(s) : s[k] \notin Whitespace} IN
    IF keep = {} THEN <<>>
    ELSE LET first == CHOOSE k \in keep : \A m \in keep : k <= m
             last  == CHOOSE k \in keep : \A m \in keep : m <= k
         IN SubSeq(s, first, last)

\* `p in s` for strings
Contains(s, p) ==
    \E k \in 0..(Len(s) - Len(p)) : Len(p) <= Len(s) /\ SubSeq(s, k + 1, k + Len(p)) = p

\* s.split('.')
RECURSIVE split(_)
split(s) ==
    IF \A k \in 1..Len(s) : s[k] # "."
    THEN <<s>>
    ELSE LET d == CHOOSE k \in 1..Len(s) : s[k] = "." /\ \A m \in 1..(k-1) : s[m] # "."
         IN <<SubSeq(s, 1, d - 1)>> \o split(SubSeq(s, d + 1, Len(s)))

(***************************************************************************)
(* The checkers, as far as the orchestrator sees them: the statuses each   *)
(* one can return, by the way its DNS lookups go.                          *)
(*   success: the records asked for exist                                  *)
(*   missing: NXDOMAIN or NoAnswer                                         *)
(*   failure: timeout, SERVFAIL or any other resolver exception            *)
(***************************************************************************)
Paths == {"success", "missing", "failure"}

check_domain_status(p) ==
    IF p = "success" THEN {"pass", "warning", "error"} ELSE {"error"}

\* [status, has_ips]: has_ips says that some entry of records carries an address
check_ns_records(p) ==
    CASE p = "success" -> [status : {"pass", "error"}, has_ips : BOOLEAN]
      [] p = "missing" -> [status : {"error"}, has_ips : BOOLEAN]
      [] p = "failure" -> [status : {"error"}, has_ips : {FALSE}]

check_soa_record(p) ==
    IF p = "success" THEN {"pass", "warning", "error"} ELSE {"error"}

check_a_records(p) ==
    IF p = "success" THEN {"pass", "warning"} ELSE {"warning"}

check_aaaa_records(p) == {"pass"}

\* [status, has_records]
check_mx_records(p) ==
    CASE p = "success" -> [status : {"pass", "warning", "error"}, has_records : {TRUE}]
      [] p = "missing" -> [status : {"info"}, has_records : {FALSE}]
      [] p = "failure" -> [status : {"error"}, has_records : {FALSE}]

check_spf_record(p) ==
    IF p = "success" THEN {"pass", "warning", "info"} ELSE {"error"}

check_txt_records(p) ==
    CASE p = "success" -> {"pass"}
      [] p = "missing" -> {"info"}
      [] p = "failure" -> {"error"}

check_cname_records(p) == {"pass"}

check_ptr_records(mx_check) ==
    IF mx_check.status = "error" \/ ~mx_check.has_records
    THEN {"info"}
    ELSE {"pass", "warning"}

check_caa_records(p) ==
    CASE p = "success" -> {"pass"}
      [] p = "missing" -> {"warning"}
      [] p = "failure" -> {"error"}

check_dmarc_record(p) ==
    CASE p = "success" -> {"pass", "warning", "error"}
      [] p = "missing" -> {"warning"}
      [] p = "failure" -> {"error"}

check_dkim_records(p) ==
    IF p = "success" THEN {"pass", "warning"} ELSE {"warning"}

\* ip_info['ip'] on an address that is a plain string raises TypeError, which the
\* checker's own except turns into status error
check_glue_records(ns_check) ==
    IF ns_check.status = "error" THEN {"error"}
    ELSE IF ns_check.has_ips THEN {"error"}
    ELSE {"pass", "error"}

check_dnssec(p) ==
    CASE p = "success" -> {"pass", "warning"}
      [] p = "missing" -> {"warning"}
      [] p = "failure" -> {"error"}

check_axfr(ns_check) ==
    IF ns_check.status = "error" THEN {"error"}
    ELSE IF ns_check.has_ips THEN {"error"}
    ELSE {"pass"}

check_wildcard(p) ==
    IF p = "success" THEN {"pass", "warning"} ELSE {"pass"}

check_www_records(p) ==
    IF p = "success" THEN {"pass", "warning", "error"} ELSE {"error"}

\* The methods class DNSChecker defines for the checks.
CheckerMethods ==
    {"_check_domain_status", "_check_ns_records", "_check_soa_record", "_check_a_records",
     "_check_aaaa_records", "_check_mx_records", "_check_spf_record", "_check_txt_records",
     "_check_cname_records", "_check_ptr_records", "_check_caa_records",
     "_check_dmarc_record", "_check_dkim_records", "_check_glue_records", "_check_dnssec",
     "_check_axfr", "_check_wildcard", "_check_www_records"}

Plain(S) == {[status |-> s, suspends |-> FALSE, pre |-> <<>>] : s \in S}

\* What a call of `method` can return when its lookups go path p:
\*   status:   the result's status
\*   suspends: the call reaches the ping subprocess await of _check_nameserver_ping
\*             (the only place where the event loop gets control)
\*   pre:      the checkers the method calls itself
Outcomes(method, p) ==
    CASE method = "_check_domain_status" -> Plain(check_domain_status(p))
      [] method = "_check_ns_records" ->
            {[status |-> n.status, suspends |-> n.has_ips, pre |-> <<>>] :
                n \in check_ns_records(p)}
      [] method = "_check_soa_record" -> Plain(check_soa_record(p))
      [] method = "_check_a_records" -> Plain(check_a_records(p))
      [] method = "_check_aaaa_records" -> Plain(check_aaaa_records(p))
      [] method = "_check_mx_records" -> Plain({m.status : m \in check_mx_records(p)})
      [] method = "_check_spf_record" -> Plain(check_spf_record(p))
      [] method = "_check_txt_records" -> Plain(check_txt_records(p))
      [] method = "_check_cname_records" -> Plain(check_cname_records(p))
      [] method = "_check_ptr_records" ->
            UNION {{[status |-> s, suspends |-> FALSE, pre |-> <<"_check_mx_records">>] :
                        s \in check_ptr_records(m)} : m \in check_mx_records(p)}
      [] method = "_check_caa_records" -> Plain(check_caa_records(p))
      [] method = "_check_dmarc_record" -> Plain(check_dmarc_record(p))
      [] method = "_check_dkim_records" -> Plain(check_dkim_records(p))
      [] method = "_check_glue_records" ->
            UNION {{[status |-> s, suspends |-> n.has_ips, pre |-> <<"_check_ns_records">>] :
                        s \in check_glue_records(n)} : n \in check_ns_records(p)}
      [] method = "_check_dnssec" -> Plain(check_dnssec(p))
      [] method = "_check_axfr" ->
            UNION {{[status |-> s, suspends |-> n.has_ips, pre |-> <<"_check_ns_records">>] :
                        s \in check_axfr(n)} : n \in check_ns_records(p)}
      [] method = "_check_wildcard" -> Plain(check_wildcard(p))
      [] method = "_check_www_records" -> Plain(check_www_records(p))

(***************************************************************************)
(* run_all_checks.                                                         *)
(***************************************************************************)
\* Variants of the definitions below, each wrong in one way.
all_check_types_without_www ==
    <<"domain_status", "ns", "soa", "a", "aaaa", "mx", "spf", "txt", "cname",
      "ptr", "caa", "dmarc", "dkim", "glue", "dnssec", "axfr", "wildcard">>

ChecksToRun_ignoring_request(requested_checks) ==
    <<"domain_status", "ns", "soa", "a", "aaaa", "mx", "spf", "txt", "cname",
      "ptr", "caa", "dmarc", "dkim", "glue", "dnssec", "axfr", "wildcard", "www">>

ExceptionEntry_failed(message) ==
    [status |-> "failed", records |-> <<>>, issues |-> <<<<"Check failed: ", message>>>>]

ExceptionEntry_without_issue(message) ==
    [status |-> "error", records |-> <<>>, issues |-> <<>>]

Summary_without_info(d) ==
    [total    |-> Len(d),
     passed   |-> Cardinality({j \in 1..Len(d) : d[j].value.status = "pass"}),
     warnings |-> Cardinality({j \in 1..Len(d) : d[j].value.status = "warning"}),
     errors   |-> Cardinality({j \in 1..Len(d) : d[j].value.status = "error"}),
     info     |-> 0]

all_check_types ==
    <<"domain_status", "ns", "soa", "a", "aaaa", "mx", "spf", "txt", "cname",
      "ptr", "caa", "dmarc", "dkim", "glue", "dnssec", "axfr", "wildcard", "www">>

InSeq(x, seq) == \E k \in 1..Len(seq) : seq[k] = x

\* the if/elif chain: the method each check type calls
Dispatch(check_type) ==
    CASE check_type = "domain_status" -> "_check_domain_status"
      [] check_type = "ns"            -> "_check_ns_records"
      [] check_type = "soa"           -> "_check_soa_record"
      [] check_type = "a"             -> "_check_a_records"
      [] check_type = "aaaa"          -> "_check_aaaa_records"
      [] check_type = "mx"            -> "_check_mx_records"
      [] check_type = "spf"           -> "_check_spf_record"
      [] check_type = "txt"           -> "_check_txt_records"
      [] check_type = "cname"         -> "_check_cname_records"
      [] check_type = "ptr"           -> "_check_ptr_records"
      [] check_type = "caa"           -> "_check_caa_records"
      [] check_type = "dmarc"         -> "_check_dmarc_record"
      [] check_type = "dkim"          -> "_check_dkim_records"
      [] check_type = "glue"          -> "_check_glue_records"
      [] check_type = "dnssec"        -> "_check_dnssec"
      [] check_type = "axfr"          -> "_check_axfr"
      [] check_type = "wildcard"      -> "_check_wildcard_records"
      [] check_type = "www"           -> "_check_www_records"

\* the key of results['checks'] each branch of the chain assigns to
ResultKey(check_type) == check_type

\* "Determine which checks to run"
ChecksToRun(requested_checks) ==
    IF requested_checks.given /\ Len(requested_checks.list) > 0
    THEN SelectSeq(requested_checks.list, LAMBDA check : InSeq(check, all_check_types))
    ELSE all_check_types

\* dict assignment d[k] = v on a dict kept in insertion order
Put(d, k, v) ==
    IF \E j \in 1..Len(d) : d[j].key = k
    THEN [j \in 1..Len(d) |-> IF d[j].key = k THEN [key |-> k, value |-> v] ELSE d[j]]
    ELSE Append(d, [key |-> k, value |-> v])

Keys(d) == {d[j].key : j \in 1..Len(d)}
Get(d, k) == d[CHOOSE j \in 1..Len(d) : d[j].key = k].value

\* the dict a checker returns, reduced to its status and the method that built it
Result(method, status) == [status |-> status, returned_by |-> method]

\* str(e) of the AttributeError raised for a method the class does not define
AttributeErrorMessage(method) == <<"'DNSChecker' object has no attribute ", method>>

\* the entry the except clause of the loop writes
ExceptionEntry(message) ==
    [status |-> "error", records |-> <<>>, issues |-> <<<<"Check failed: ", message>>>>]

EmptySummary == [total |-> 0, passed |-> 0, warnings |-> 0, errors |-> 0, info |-> 0]

CountStatus(d, status) == Cardinality({j \in 1..Len(d) : d[j].value.status = status})

\* "Calculate summary statistics"
Summary(d) ==
    [total    |-> Len(d),
     passed   |-> CountStatus(d, "pass"),
     warnings |-> CountStatus(d, "warning"),
     errors   |-> CountStatus(d, "error"),
     info     |-> CountStatus(d, "info")]

(***************************************************************************)
(* The environment of a run.                                               *)
(***************************************************************************)
\* the timeouts check_dns gives asyncio.wait_for, in seconds
TIMEOUT_SUBSET == 60
TIMEOUT_ALL == 120

Rank(status) ==
    CASE status = "pass" -> 0 [] status = "info" -> 1
      [] status = "warning" -> 2 [] status = "error" -> 3

Score(o) == 2 * Rank(o.status) + (IF o.suspends THEN 0 ELSE 1)

\* the outcome of a checker on a zone in good order, for lookups going path p
Baseline(method, p) ==
    CHOOSE o \in Outcomes(method, p) : \A q \in Outcomes(method, p) : Score(o) <= Score(q)

\* 1 when the checker's lookups and findings differ from the baseline of the run
Cost(p, o, baseline) == IF p = base_path /\ o = baseline THEN 0 ELSE 1

\* the time one checker takes before it reaches its last await, in seconds: none to
\* speak of, or enough to use up the deadline (the clock stops there)
Durations == {0, TIMEOUT_ALL}

\* the clock is kept up to the deadline only
Clock(t) == IF t > timeout THEN timeout ELSE t

Expired(t) == timeout > 0 /\ t >= timeout

\* what the clock can show when the current checker reaches its last await
Elapse == {Clock(elapsed + t) : t \in Durations}

(***************************************************************************)
(* check_dns, the handler of POST /api/check (its decorators apart).       *)
(***************************************************************************)
MAX_DOMAIN_LENGTH == 253

suspicious_patterns ==
    {<<"l","o","c","a","l","h","o","s","t">>,
     <<"1","2","7",".","0",".","0",".","1">>,
     <<"0",".","0",".","0",".","0">>,
     <<"1","0",".">>,
     <<"1","9","2",".","1","6","8",".">>,
     <<"1","7","2",".">>,
     <<"t","e","s","t",".","t","e","s","t">>,
     <<"e","x","a","m","p","l","e",".","e","x","a","m","p","l","e">>,
     <<"a","d","m","i","n">>,
     <<"r","o","o","t">>,
     <<"a","p","i">>}

\* re.match(domain_pattern, domain): dot-separated labels of 1 to 63 characters,
\* letters, digits and inner hyphens
LabelOK(l) ==
    /\ Len(l) >= 1 /\ Len(l) <= 63
    /\ l[1] \in AlNum /\ l[Len(l)] \in AlNum
    /\ \A k \in 1..Len(l) : l[k] \in AlNum \cup {"-"}

domain_pattern(d) == LET labels == split(d) IN \A k \in 1..Len(labels) : LabelOK(labels[k])

valid_checks ==
    {"ns", "soa", "a", "aaaa", "mx", "spf", "txt", "cname",
     "ptr", "caa", "dmarc", "dkim", "glue", "dnssec", "axfr", "wildcard"}

\* the validation of the request body: the error of the 400 response, or "ok"
Validate(data) ==
    LET d == lower(strip(data.domain)) IN
    IF ~data.has_domain THEN "Domain is required"
    ELSE IF d = <<>> \/ Len(d) > MAX_DOMAIN_LENGTH THEN "Invalid domain name"
    ELSE IF \E pat \in suspicious_patterns : Contains(d, pat)
         THEN "Domain not allowed for analysis"
    ELSE IF ~domain_pattern(d) THEN "Invalid domain format"
    ELSE IF \E k \in 1..Len(data.checks) : data.checks[k] \notin valid_checks
         THEN "Invalid check types"
    ELSE "ok"

NoResults == [domain |-> <<>>, status |-> "none", checks |-> <<>>, summary |-> EmptySummary]
NoResponse == [code |-> 0, error |-> "", report |-> NoResults]

\* results as run_all_checks creates it (the timestamp apart)
NewResults(d) ==
    [domain |-> d, status |-> "completed", checks |-> <<>>, summary |-> EmptySummary]

\* DNSChecker.__init__: self.domain
InitDomain(d) == strip(lower(d))

(***************************************************************************)
(* Inputs.                                                                 *)
(***************************************************************************)
RawDomains ==
    {<<>>, <<" ">>, <<"D",".","c","c"," ">>, <<"1","0",".","c","c">>, <<"-",".","c","c">>}
DirectDomains == {<<>>, <<" ">>, <<"D",".","c","c"," ">>}
ReqNames == {"ns", "glue", "mx", "ptr", "wildcard", "bogus"}
ReqLists == UNION {[1..n -> ReqNames] : n \in 0..MaxReq}
Requests == {[given |-> FALSE, list |-> <<>>]} \cup [given : {TRUE}, list : ReqLists]
Bodies ==
    {[has_domain |-> FALSE, domain |-> <<>>, checks |-> <<>>]}
    \cup [has_domain : {TRUE}, domain : RawDomains, checks : ReqLists]

NsIdle == [pc |-> "idle"]
AppIdle == [pc |-> "idle"]
ChkIdle == [pc |-> "idle"]

Init ==
    /\ pc = "new"
    /\ via = "none"
    /\ domain = <<>>
    /\ requested = [given |-> FALSE, list |-> <<>>]
    /\ checks_to_run = <<>>
    /\ i = 0
    /\ results = NoResults
    /\ calls = <<>>
    /\ base_path = "success"
    /\ varied = 0
    /\ elapsed = 0
    /\ timeout = 0
    /\ response = NoResponse
    /\ ns = NsIdle
    /\ chk = ChkIdle
    /\ app = AppIdle

\* DNSChecker(d)
Construct ==
    /\ pc = "new"
    /\ \E d \in DirectDomains :
       /\ pc' = "constructed"
       /\ via' = "direct"
       /\ domain' = InitDomain(d)
       /\ UNCHANGED <<requested, checks_to_run, i, results, calls, base_path, varied,
                      elapsed, timeout, response, ns, chk, app>>

\* run_all_checks(requested_checks), up to the for loop
RunAllChecks ==
    /\ pc = "constructed"
    /\ \E requested_checks \in Requests :
       /\ pc' = "running"
       /\ requested' = requested_checks
       /\ results' = NewResults(domain)
       /\ checks_to_run' = ChecksToRun(requested_checks)
       /\ i' = 1
       /\ base_path' \in Paths
       /\ UNCHANGED <<via, domain, calls, varied, elapsed, timeout, response, ns, chk, app>>

CallLog(check_type, method, o) ==
    <<[check |-> check_type, method |-> method, caller |-> "run_all_checks", raised |-> FALSE]>>
    \o [k \in 1..Len(o.pre) |->
            [check |-> check_type, method |-> o.pre[k], caller |-> method, raised |-> FALSE]]

\* one iteration of the for loop whose checker returns
RunChecker ==
    /\ pc = "running"
    /\ i <= Len(checks_to_run)
    /\ LET check_type == checks_to_run[i]
           method == Dispatch(check_type)
           baseline == Baseline(method, base_path) IN
       /\ method \in CheckerMethods
       /\ \E p \in Paths :
          \E o \in Outcomes(method, p), now \in Elapse :
             /\ varied + Cost(p, o, baseline) <= MaxVaried
             /\ ~(o.suspends /\ Expired(now))
             /\ varied' = varied + Cost(p, o, baseline)
             /\ elapsed' = now
             /\ results' = [results EXCEPT
                              !.checks = Put(@, ResultKey(check_type), Result(method, o.status))]
             /\ calls' = calls \o CallLog(check_type, method, o)
    /\ i' = i + 1
    /\ UNCHANGED <<pc, via, domain, requested, checks_to_run, base_path, timeout, response, ns, chk, app>>

\* one iteration of the for loop that ends in the except clause: the method the
\* branch names does not exist, and getattr raises AttributeError
CheckerRaises ==
    /\ pc = "running"
    /\ i <= Len(checks_to_run)
    /\ LET check_type == checks_to_run[i]
           method == Dispatch(check_type) IN
       /\ method \notin CheckerMethods
       /\ results' = [results EXCEPT
                        !.checks = Put(@, check_type, ExceptionEntry(AttributeErrorMessage(method)))]
       /\ calls' = Append(calls, [check |-> check_type, method |-> method,
                                  caller |-> "run_all_checks", raised |-> TRUE])
    /\ i' = i + 1
    /\ UNCHANGED <<pc, via, domain, requested, checks_to_run, base_path, varied, elapsed,
                   timeout, response, ns, chk, app>>

\* one iteration of the for loop during which the deadline of asyncio.wait_for
\* passes: at the ping await the task is cancelled, CancelledError is no Exception
\* and leaves run_all_checks
CheckerCancelled ==
    /\ pc = "running"
    /\ i <= Len(checks_to_run)
    /\ LET check_type == checks_to_run[i]
           method == Dispatch(check_type)
           baseline == Baseline(method, base_path) IN
       /\ method \in CheckerMethods
       /\ \E p \in Paths :
          \E o \in Outcomes(method, p), now \in Elapse :
             /\ varied + Cost(p, o, baseline) <= MaxVaried
             /\ o.suspends /\ Expired(now)
             /\ varied' = varied + Cost(p, o, baseline)
             /\ elapsed' = now
             /\ calls' = calls \o CallLog(check_type, method, o)
    /\ pc' = "cancelled"
    /\ UNCHANGED <<via, domain, requested, checks_to_run, i, results, base_path, timeout,
                   response, ns, chk, app>>

\* the end of run_all_checks: the summary, and return results
Return ==
    /\ pc = "running"
    /\ i > Len(checks_to_run)
    /\ results' = [results EXCEPT !.summary = Summary(results.checks)]
    /\ pc' = "returned"
    /\ UNCHANGED <<via, domain, requested, checks_to_run, i, calls, base_path, varied,
                   elapsed, timeout, response, ns, chk, app>>

\* check_dns: a request that fails validation
CheckDnsReject ==
    /\ pc = "new"
    /\ \E data \in Bodies :
       /\ Validate(data) # "ok"
       /\ response' = [code |-> 400, error |-> Validate(data), report |-> NoResults]
       /\ pc' = "responded"
       /\ via' = "http"
       /\ UNCHANGED <<domain, requested, checks_to_run, i, results, calls, base_path, varied,
                      elapsed, timeout, ns, chk, app>>

\* check_dns: a valid request, up to the for loop of run_all_checks
CheckDnsRun ==
    /\ pc = "new"
    /\ \E data \in Bodies :
       /\ Validate(data) = "ok"
       /\ via' = "http"
       /\ domain' = InitDomain(lower(strip(data.domain)))
       /\ requested' = [given |-> Len(data.checks) > 0, list |-> data.checks]
       /\ timeout' = IF Len(data.checks) > 0 THEN TIMEOUT_SUBSET ELSE TIMEOUT_ALL
       /\ results' = NewResults(InitDomain(lower(strip(data.domain))))
       /\ checks_to_run' = ChecksToRun([given |-> Len(data.checks) > 0, list |-> data.checks])
       /\ i' = 1
       /\ base_path' \in Paths
       /\ pc' = "running"
       /\ UNCHANGED <<calls, varied, elapsed, response, ns, chk, app>>

\* check_dns: return jsonify(result)
CheckDnsRespond ==
    /\ pc = "returned"
    /\ via = "http"
    /\ response' = [code |-> 200, error |-> "", report |-> results]
    /\ pc' = "responded"
    /\ UNCHANGED <<via, domain, requested, checks_to_run, i, results, calls, base_path,
                   varied, elapsed, timeout, ns, chk, app>>

\* check_dns: except asyncio.TimeoutError
CheckDnsTimeout ==
    /\ pc = "cancelled"
    /\ response' = [code |-> 408, error |-> "Request timeout - analysis took too long",
                    report |-> NoResults]
    /\ pc' = "responded"
    /\ UNCHANGED <<via, domain, requested, checks_to_run, i, results, calls, base_path,
                   varied, elapsed, timeout, ns, chk, app>>

Next ==
    \/ Construct
    \/ RunAllChecks
    \/ RunChecker
    \/ CheckerRaises
    \/ CheckerCancelled
    \/ Return
    \/ CheckDnsReject
    \/ CheckDnsRun
    \/ CheckDnsRespond
    \/ CheckDnsTimeout

Spec == Init /\ [][Next]_vars

(***************************************************************************)
(* Properties of run_all_checks and check_dns.                             *)
(***************************************************************************)
\* the recognized check names of the specification
RecognizedNames ==
    {"ns", "soa", "a", "aaaa", "mx", "spf", "txt", "cname", "ptr", "caa", "dmarc",
     "dkim", "glue", "dnssec", "axfr", "wildcard", "www", "domain_status"}

Statuses == {"pass", "warning", "error", "info"}

\* run_all_checks has returned its report
Returned == pc = "returned" \/ (pc = "responded" /\ response.code = 200)

RequestedNames == {requested.list[k] : k \in 1..Len(requested.list)}
NonEmptyRequest == requested.given /\ Len(requested.list) > 0
TopCalls == SelectSeq(calls, LAMBDA c : c.caller = "run_all_checks")

\* C1: in every report run_all_checks returns, summary.total is the number of keys
\* of checks and the four counters passed, warnings, errors, info sum to total.
C1_SummaryPartitionsChecks ==
    Returned =>
        /\ results.summary.total = Cardinality(Keys(results.checks))
        /\ results.summary.passed + results.summary.warnings
             + results.summary.errors + results.summary.info = results.summary.total

\* a report of a request with an unknown name and a checker that raised
C1_Witness ==
    /\ pc = "returned"
    /\ "bogus" \in RequestedNames
    /\ results.summary.total = 1
    /\ results.summary.errors = 1
    /\ \E k \in 1..Len(calls) : calls[k].raised

\* C2: every entry of checks has a status among pass, warning, error, info, the
\* entry written for a checker that raised included.
C2_StatusInFourValues ==
    \A j \in 1..Len(results.checks) : results.checks[j].value.status \in Statuses

\* a full report, with all four statuses and the entry of the except clause
C2_Witness ==
    /\ pc = "returned"
    /\ Len(results.checks) = 18
    /\ \E k \in 1..Len(calls) : calls[k].raised
    /\ \A s \in Statuses : \E j \in 1..Len(results.checks) : results.checks[j].value.status = s

\* C3: for a non-empty requested list the keys of checks are exactly the requested
\* names that are recognized; an unknown name gives no entry and no error, and a
\* prerequisite a checker runs itself gives no entry.
C3_KeysAreRequestedRecognized ==
    /\ (NonEmptyRequest /\ pc \in {"running", "returned"}) =>
          /\ Keys(results.checks) \subseteq RequestedNames \cap RecognizedNames
          /\ \A k \in 1..Len(calls) : calls[k].check \in RequestedNames \cap RecognizedNames
    /\ (NonEmptyRequest /\ Returned) =>
          Keys(results.checks) = RequestedNames \cap RecognizedNames

\* ptr and an unknown name requested: mx has run inside ptr, the report has ptr only
C3_Witness ==
    /\ pc = "returned"
    /\ requested.list = <<"ptr", "bogus">>
    /\ \E k \in 1..Len(calls) :
          calls[k].method = "_check_mx_records" /\ calls[k].caller = "_check_ptr_records"
    /\ Keys(results.checks) = {"ptr"}

\* C4: with an empty or missing requested list the report has exactly one entry for
\* each of the 18 recognized names.
C4_EmptyRequestRunsAll ==
    (Returned /\ ~NonEmptyRequest) =>
        /\ Keys(results.checks) = RecognizedNames
        /\ Len(results.checks) = 18

\* a report for an empty list that was given
C4_Witness ==
    /\ pc = "returned"
    /\ requested.given /\ requested.list = <<>>
    /\ Len(results.checks) = 18

\* the checks that raised so far
RaisedChecks == {calls[k].check : k \in {n \in 1..Len(calls) : calls[n].raised}}

\* the step from one state of the loop to the next touches the entry of the current
\* check only
OnlyCurrentEntryWritten ==
    (pc = "running" /\ i <= Len(checks_to_run)) =>
        \A j \in 1..Len(results.checks) :
            results.checks[j].key # checks_to_run[i] =>
                /\ j <= Len(results'.checks)
                /\ results'.checks[j] = results.checks[j]

\* the step in which a checker raises stays in the loop and moves to the next check
RaiseContinues ==
    (Len(calls') > Len(calls) /\ calls'[Len(calls')].raised) =>
        (pc' = "running" /\ i' = i + 1)

\* C5: a checker that raises gets the entry {status error, records [], issues
\* [message]}; the checks after it still run and get entries, the entries written
\* before it stay as they are, and run_all_checks returns its report.
C5_RaiseBecomesErrorEntry ==
    /\ [](\A c \in RaisedChecks :
            /\ c \in Keys(results.checks)
            /\ Get(results.checks, c).status = "error"
            /\ Get(results.checks, c).records = <<>>
            /\ Len(Get(results.checks, c).issues) = 1
            /\ Get(results.checks, c).issues[1][1] = "Check failed: ")
    /\ [](Returned =>
            /\ Len(TopCalls) = Len(checks_to_run)
            /\ \A k \in 1..Len(checks_to_run) :
                  TopCalls[k].check = checks_to_run[k] /\ checks_to_run[k] \in Keys(results.checks))
    /\ [][OnlyCurrentEntryWritten /\ RaiseContinues]_vars

\* a returned report where a checker raised after one check and before another
C5_Witness ==
    /\ pc = "returned"
    /\ \E j, k, l \in 1..Len(TopCalls) :
          /\ j < k /\ k < l
          /\ ~TopCalls[j].raised /\ TopCalls[k].raised /\ ~TopCalls[l].raised
          /\ {TopCalls[j].check, TopCalls[k].check, TopCalls[l].check} \subseteq Keys(results.checks)

\* position of a check name in the canonical list
Index(check) == CHOOSE k \in 1..Len(all_check_types) : all_check_types[k] = check

\* C6: whatever the order of the requested list, checks run and are inserted in the
\* order of the canonical list (ns before glue, axfr and soa; mx before ptr).
C6_CanonicalRunOrder ==
    /\ \A j, k \in 1..Len(TopCalls) :
          j < k => Index(TopCalls[j].check) <= Index(TopCalls[k].check)
    /\ \A j, k \in 1..Len(results.checks) :
          j < k => Index(results.checks[j].key) < Index(results.checks[k].key)

\* C7: an empty domain is rejected before any check runs: no DNSChecker exists for
\* it, and no checker is called.
C7_EmptyDomainRejected ==
    /\ (via = "direct" /\ pc # "new") => domain # <<>>
    /\ domain = <<>> => calls = <<>>

\* C8: when the deadline passes while checks are unfinished, the caller receives a
\* report with status completed that holds the entries of the finished checks and
\* an entry with a timeout issue for each unfinished check.
C8_DeadlineKeepsPartialReport ==
    (pc = "responded" /\ i >= 1 /\ i <= Len(checks_to_run)) =>
        /\ response.report.status = "completed"
        /\ \A j \in 1..Len(results.checks) :
              \E k \in 1..Len(response.report.checks) :
                  response.report.checks[k] = results.checks[j]
        /\ \A k \in i..Len(checks_to_run) :
              checks_to_run[k] \in Keys(response.report.checks)

(***************************************************************************)
(* _check_ns_records (specification SpecNS).                               *)
(*                                                                         *)
(* ns is a record: pc (start, parent, domain, built, checked, done), the   *)
(* environment (addr: the A records of each nameserver name), the locals   *)
(* parent_result, domain_ns_result, checks (type and status of each entry),*)
(* all_records, and the result returned.                                   *)
(***************************************************************************)
MaxRRsets == 2     \* RRsets in the authority section of the TLD server's response

NS_DOMAIN == <<"d",".","c","c">>
HostList == <<<<"a",".","c","c">>, <<"b",".","c","c">>, <<"_",".","c","c">>>>
Hosts == {HostList[k] : k \in 1..Len(HostList)}

IP1 == <<192, 0, 2, 1>>
IP2 == <<192, 0, 2, 2>>
IP3 == <<198, 51, 100, 1>>

\* what resolver.resolve(ns, 'A') gives for each name (<<>>: the lookup fails)
AddrMaps ==
    {[h \in Hosts |-> <<>>],
     [h \in Hosts |-> IF h = HostList[1] THEN <<IP1>> ELSE IF h = HostList[2] THEN <<IP2>> ELSE <<>>],
     [h \in Hosts |-> IF h = HostList[1] THEN <<IP1>> ELSE IF h = HostList[2] THEN <<IP3>> ELSE <<IP2>>]}

\* an RRset holds each rdata once
RRsets == {SelectSeq(HostList, LAMBDA h : h \in S) : S \in (SUBSET Hosts) \ {{}}}
Authorities == UNION {[1..n -> RRsets] : n \in 0..MaxRRsets}

\* what the TLD server lookup can come to:
\*   no_registry   _load_tld_data could not read the registry file and gave {}
\*   no_tld        the registry has no entry for the TLD of the domain
\*   no_nserver    the entry of the TLD has no nserver list
\*   timeout       the server random.choice picked does not answer; other_answers
\*                 says that another server of the nserver list would
\*   bad_response  the answer cannot be read as a delegation
\*   response      the answer, with its authority section
ParentLookups ==
    [kind : {"no_registry", "no_tld", "no_nserver", "bad_response"},
     authority : {<<>>}, other_answers : {FALSE}]
    \cup [kind : {"timeout"}, authority : {<<>>}, other_answers : BOOLEAN]
    \cup [kind : {"response"}, authority : Authorities, other_answers : {TRUE}]

\* what resolver.resolve(self.domain, 'NS') can come to
DomainLookups ==
    {[kind |-> "exception", answer |-> <<>>]} \cup [kind : {"answer"}, answer : RRsets]

\* what the probes of the sub-checks find
Probes ==
    [recursion : BOOLEAN,                      \* the servers answer for google.com
     class : {"IN", "other", "exception"},     \* rdclass of the NS records, or the lookup fails
     responds : BOOLEAN,                       \* the servers answer the SOA query
     ping : BOOLEAN]                           \* ping returns 0

ToSet(seq) == {seq[k] : k \in 1..Len(seq)}

RECURSIVE Flatten(_)
\* for auth in response.authority: for rr in auth.items: delegation.append(...)
Flatten(authority) ==
    IF authority = <<>> THEN <<>> ELSE Head(authority) \o Flatten(Tail(authority))

\* nameserver_ips of a lookup result
NameserverIps(records, addr) == [h \in ToSet(records) |-> addr[h]]

\* a variant that takes a TLD it cannot look up for a delegation without records
get_parent_delegation_unknown_tld_passes(lookup, addr) ==
    IF lookup.kind = "response"
    THEN [status |-> IF Flatten(lookup.authority) # <<>> THEN "pass" ELSE "error",
          records |-> Flatten(lookup.authority),
          nameserver_ips |-> NameserverIps(Flatten(lookup.authority), addr),
          tld_server_used |-> "tld_ns_hostname"]
    ELSE [status |-> "pass", records |-> <<>>, nameserver_ips |-> <<>>,
          tld_server_used |-> "None"]

get_parent_delegation(lookup, addr) ==
    IF lookup.kind = "response"
    THEN LET delegation == Flatten(lookup.authority) IN
         [status |-> IF delegation # <<>> THEN "pass" ELSE "error",
          records |-> delegation,
          nameserver_ips |-> NameserverIps(delegation, addr),
          tld_server_used |-> "tld_ns_hostname"]
    ELSE [status |-> "error", records |-> <<>>, nameserver_ips |-> <<>>,
          tld_server_used |-> "None"]

get_domain_nameservers(lookup, addr) ==
    IF lookup.kind = "answer"
    THEN [status |-> "pass", records |-> lookup.answer,
          nameserver_ips |-> NameserverIps(lookup.answer, addr),
          tld_server_used |-> "None"]
    ELSE [status |-> "error", records |-> <<>>, nameserver_ips |-> <<>>,
          tld_server_used |-> "None"]

Check(type, status) == [type |-> type, status |-> status]

\* a variant that never reports the names only the domain has
ComparisonChecks_without_missing_at_parent(parent_result, domain_ns_result) ==
    <<Check("parent_delegation", IF parent_result.status = "pass" THEN "pass" ELSE "error"),
      Check("domain_nameservers", IF domain_ns_result.status = "pass" THEN "pass" ELSE "error"),
      Check("comparison",
            IF ToSet(parent_result.records) = ToSet(domain_ns_result.records)
            THEN "pass" ELSE "error")>>
    \o (IF ToSet(parent_result.records) \ ToSet(domain_ns_result.records) # {}
        THEN <<Check("missing_at_domain", "error")>> ELSE <<>>)

\* steps 3 and 4 of _check_ns_records: the comparison and the first entries of checks
ComparisonChecks(parent_result, domain_ns_result) ==
    LET parent_records == ToSet(parent_result.records)
        domain_records == ToSet(domain_ns_result.records)
        match == parent_records = domain_records
    IN <<Check("parent_delegation", IF parent_result.status = "pass" THEN "pass" ELSE "error"),
         Check("domain_nameservers", IF domain_ns_result.status = "pass" THEN "pass" ELSE "error"),
         Check("comparison", IF match THEN "pass" ELSE "error")>>
       \o (IF ~match /\ parent_records \ domain_records # {}
           THEN <<Check("missing_at_domain", "error")>> ELSE <<>>)
       \o (IF ~match /\ domain_records \ parent_records # {}
           THEN <<Check("missing_at_parent", "error")>> ELSE <<>>)

HasHost(records, h) == \E k \in 1..Len(records) : records[k].host = h

RECURSIVE AddDomainRecords(_, _, _)
\* the second loop of "Build all_records": a name already present is skipped
AddDomainRecords(all_records, names, ips) ==
    IF names = <<>> THEN all_records
    ELSE AddDomainRecords(
            IF HasHost(all_records, Head(names)) THEN all_records
            ELSE Append(all_records, [host |-> Head(names), ips |-> ips[Head(names)],
                                      source |-> "domain"]),
            Tail(names), ips)

\* "Build all_records": every parent record, then the domain records not yet there
BuildAllRecords(parent_result, domain_ns_result) ==
    AddDomainRecords(
        [k \in 1..Len(parent_result.records) |->
            [host |-> parent_result.records[k],
             ips |-> parent_result.nameserver_ips[parent_result.records[k]],
             source |-> "parent"]],
        domain_ns_result.records, domain_ns_result.nameserver_ips)

check_recursive_queries(nameservers, addr, probe) ==
    Check("recursive_queries",
          IF \E h \in nameservers : addr[h] # <<>> /\ probe.recursion THEN "warning" ELSE "pass")

check_same_class(probe) ==
    Check("same_class",
          CASE probe.class = "IN" -> "pass"
            [] probe.class = "other" -> "error"
            [] probe.class = "exception" -> "info")

check_ns_responses(all_records, addr, probe) ==
    LET names == {all_records[k].host : k \in 1..Len(all_records)}
        responsive == {h \in names : addr[h] # <<>> /\ probe.responds}
        non_responsive == names \ responsive
    IN Check("dns_servers_responded",
             IF non_responsive # {} THEN "error"
             ELSE IF responsive # {} THEN "pass" ELSE "warning")

\* the /24 of an IPv4 address: '.'.join(ip.split('.')[:3])
Subnet(ip) == SubSeq(ip, 1, 3)

check_different_subnets(parent_ips, domain_ips) ==
    LET all_ips == UNION ({ToSet(parent_ips[h]) : h \in DOMAIN parent_ips}
                          \cup {ToSet(domain_ips[h]) : h \in DOMAIN domain_ips})
        subnets == {Subnet(ip) : ip \in all_ips}
    IN Check("different_subnets",
             IF Cardinality(all_ips) < 2 THEN "info"
             ELSE IF Cardinality(subnets) >= 2 THEN "pass"
             ELSE IF Cardinality(subnets) = 1 THEN "warning" ELSE "info")

check_glue_records_detail(all_records) ==
    Check("glue_for_ns_records",
          IF \E k \in 1..Len(all_records) : all_records[k].ips # <<>> THEN "info" ELSE "warning")

\* hostname_pattern: labels of letters, digits and inner hyphens, each followed by a
\* dot, then a last label of two or more letters; 253 characters at most
HostLabelOK(l) ==
    /\ Len(l) >= 1 /\ Len(l) <= 63
    /\ \A k \in 1..Len(l) : l[k] \in AlNum \cup {"-"}
    /\ l[1] # "-" /\ l[Len(l)] # "-"

hostname_pattern(name) ==
    LET labels == split(name) IN
    /\ Len(name) >= 1 /\ Len(name) <= 253
    /\ Len(labels) >= 2
    /\ \A k \in 1..(Len(labels) - 1) : HostLabelOK(labels[k])
    /\ Len(labels[Len(labels)]) >= 2
    /\ \A k \in 1..Len(labels[Len(labels)]) : labels[Len(labels)][k] \in Letters

check_nameserver_hostnames(nameservers) ==
    Check("name_of_nameservers_valid",
          IF \E h \in nameservers :
                \/ ~hostname_pattern(h)
                \/ \E k \in 1..Len(h) : h[k] \in {"_", " ", "@", "!"}
                \/ \E k \in 1..Len(split(h)) : Len(split(h)[k]) > 63
          THEN "error" ELSE "pass")

check_nameserver_ping(all_records, probe) ==
    LET pinged == {k \in 1..Len(all_records) : k <= 5 /\ all_records[k].ips # <<>>}
        responsive_count == IF probe.ping THEN Cardinality(pinged) ELSE 0
    IN Check("is_ping_nameservers_work",
             IF responsive_count = 0 /\ pinged # {} THEN "warning"
             ELSE IF responsive_count > 0 THEN "pass" ELSE "info")

multiple_nameservers(ns_count) ==
    Check("multiple_nameservers", IF ns_count >= 2 THEN "pass" ELSE "error")

\* a variant that appends the ping entry as soon as it is there
SubChecks_ping_first(parent_result, domain_ns_result, all_records, addr, probe) ==
    <<check_nameserver_ping(all_records, probe),
      check_recursive_queries(ToSet(domain_ns_result.records), addr, probe),
      check_same_class(probe),
      check_ns_responses(all_records, addr, probe),
      check_different_subnets(parent_result.nameserver_ips, domain_ns_result.nameserver_ips),
      check_glue_records_detail(all_records),
      check_nameserver_hostnames(ToSet(domain_ns_result.records)),
      multiple_nameservers(Cardinality(ToSet(domain_ns_result.records)))>>

\* the eight entries appended after all_records is built, in the order of the code
SubChecks(parent_result, domain_ns_result, all_records, addr, probe) ==
    LET domain_records == ToSet(domain_ns_result.records) IN
    <<check_recursive_queries(domain_records, addr, probe),
      check_same_class(probe),
      check_ns_responses(all_records, addr, probe),
      check_different_subnets(parent_result.nameserver_ips, domain_ns_result.nameserver_ips),
      check_glue_records_detail(all_records),
      check_nameserver_hostnames(domain_records),
      check_nameserver_ping(all_records, probe),
      multiple_nameservers(Cardinality(domain_records))>>

\* "Overall status should be error if NS records don't match"
overall_status(parent_result, domain_ns_result) ==
    IF parent_result.records = <<>> \/ domain_ns_result.records = <<>> THEN "error"
    ELSE IF ToSet(parent_result.records) # ToSet(domain_ns_result.records) THEN "error"
    ELSE "pass"

NoLookupResult ==
    [status |-> "none", records |-> <<>>, nameserver_ips |-> <<>>, tld_server_used |-> "None"]
NoNsResult == [status |-> "none"]
NoLookup == [kind |-> "none", other_answers |-> FALSE]

\* the dict _check_ns_records returns from its try block
NsResult(parent_result, domain_ns_result, all_records, checks) ==
    [status |-> overall_status(parent_result, domain_ns_result),
     count |-> Len(all_records),
     records |-> all_records,
     parent_delegation |-> parent_result,
     domain_nameservers |-> domain_ns_result,
     comparisons |->
        [match |-> ToSet(parent_result.records) = ToSet(domain_ns_result.records),
         parent_count |-> Cardinality(ToSet(parent_result.records)),
         domain_count |-> Cardinality(ToSet(domain_ns_result.records))],
     parent_server |-> parent_result.tld_server_used,
     glue_records |-> \E k \in 1..Len(all_records) : all_records[k].ips # <<>>,
     checks |-> checks]

\* the call SpecNS follows: run_all_checks(NsRequest), with the NS check unfolded
NsRequest == [given |-> TRUE, list |-> <<"ns", "aaaa">>]

InitNS ==
    /\ pc = "ns"
    /\ via = "direct"
    /\ domain = NS_DOMAIN
    /\ requested = NsRequest
    /\ checks_to_run = ChecksToRun(NsRequest)
    /\ i = 1
    /\ results = NewResults(NS_DOMAIN)
    /\ calls = <<>>
    /\ base_path = "success"
    /\ varied = MaxVaried
    /\ elapsed = 0
    /\ timeout = 0
    /\ response = NoResponse
    /\ chk = ChkIdle
    /\ app = AppIdle
    /\ \E addr \in AddrMaps :
          ns = [pc |-> "start", addr |-> addr, lookup |-> NoLookup,
                parent_result |-> NoLookupResult,
                domain_ns_result |-> NoLookupResult, checks |-> <<>>, all_records |-> <<>>,
                result |-> NoNsResult]

NsUnchanged ==
    UNCHANGED <<pc, via, domain, requested, checks_to_run, i, results, calls, base_path,
                varied, elapsed, timeout, response, chk, app>>

\* parent_result = await self._get_parent_delegation()
NsGetParent ==
    /\ ns.pc = "start"
    /\ \E lookup \in ParentLookups :
       /\ ns' = [ns EXCEPT !.pc = "parent",
                           !.lookup = [kind |-> lookup.kind,
                                       other_answers |-> lookup.other_answers],
                           !.parent_result = get_parent_delegation(lookup, ns.addr)]
       /\ NsUnchanged

\* domain_ns_result = await self._get_domain_nameservers()
NsGetDomain ==
    /\ ns.pc = "parent"
    /\ \E lookup \in DomainLookups :
       /\ ns' = [ns EXCEPT !.pc = "domain",
                           !.domain_ns_result = get_domain_nameservers(lookup, ns.addr)]
       /\ NsUnchanged

\* from "Compare and analyze" to "Build all_records"
NsBuild ==
    /\ ns.pc = "domain"
    /\ ns' = [ns EXCEPT !.pc = "built",
                        !.checks = ComparisonChecks(ns.parent_result, ns.domain_ns_result),
                        !.all_records = BuildAllRecords(ns.parent_result, ns.domain_ns_result)]
    /\ NsUnchanged

\* the sub-checks, from _check_recursive_queries to the NS count validation
NsSubChecks ==
    /\ ns.pc = "built"
    /\ \E probe \in Probes :
       /\ ns' = [ns EXCEPT !.pc = "checked",
                           !.checks = @ \o SubChecks(ns.parent_result, ns.domain_ns_result,
                                                     ns.all_records, ns.addr, probe)]
       /\ NsUnchanged

\* the overall status and return result; run_all_checks stores the result under
\* the key ns and goes on with the next check
NsReturn ==
    /\ ns.pc = "checked"
    /\ pc = "ns"
    /\ LET result == NsResult(ns.parent_result, ns.domain_ns_result, ns.all_records, ns.checks) IN
       /\ ns' = [ns EXCEPT !.pc = "done", !.result = result]
       /\ results' = [results EXCEPT !.checks = Put(@, ResultKey(checks_to_run[i]), result)]
    /\ calls' = Append(calls, [check |-> checks_to_run[i], method |-> Dispatch(checks_to_run[i]),
                               caller |-> "run_all_checks", raised |-> FALSE])
    /\ i' = i + 1
    /\ pc' = "running"
    /\ UNCHANGED <<via, domain, requested, checks_to_run, base_path, varied, elapsed,
                   timeout, response, chk, app>>

NextNS ==
    \/ NsGetParent
    \/ NsGetDomain
    \/ NsBuild
    \/ NsSubChecks
    \/ NsReturn
    \/ RunChecker
    \/ Return

SpecNS == InitNS /\ [][NextNS]_vars

(***************************************************************************)
(* Properties of _check_ns_records.                                        *)
(***************************************************************************)
\* the overall status the specification gives for the state of a finished NS check
StatedOverallStatus ==
    IF \/ ns.parent_result.records = <<>>
       \/ ns.domain_ns_result.records = <<>>
       \/ ToSet(ns.parent_result.records) # ToSet(ns.domain_ns_result.records)
    THEN "error"
    ELSE IF \E k \in 1..Len(ns.result.checks) : ns.result.checks[k].status = "warning"
    THEN "warning"
    ELSE "pass"

\* C9: the overall status of the NS check is error if the parent list or the domain
\* list is empty or the two sets of names differ, else warning if some sub-check has
\* status warning, else pass.
C9_NsOverallStatus ==
    ns.pc = "done" => ns.result.status = StatedOverallStatus

\* C10: records of the NS result has no two entries with the same host, and a name
\* in both the parent list and the domain list is there once, with source parent.
C10_NsRecordsUniqueHosts ==
    ns.pc = "done" =>
        /\ \A j, k \in 1..Len(ns.result.records) :
              ns.result.records[j].host = ns.result.records[k].host => j = k
        /\ \A h \in ToSet(ns.parent_result.records) \cap ToSet(ns.domain_ns_result.records) :
              \E k \in 1..Len(ns.result.records) :
                  ns.result.records[k].host = h /\ ns.result.records[k].source = "parent"

ParentNames == ToSet(ns.parent_result.records)
DomainNames == ToSet(ns.domain_ns_result.records)
HasCheck(type) == \E k \in 1..Len(ns.result.checks) : ns.result.checks[k].type = type

\* C11: comparisons.match is true exactly when the set of parent names equals the
\* set of domain names; when they differ the status is error, checks has a
\* comparison entry with status error, a missing_at_domain entry exactly when a name
\* is only at the parent and a missing_at_parent entry exactly when a name is only at
\* the domain.
C11_NsComparison ==
    ns.pc = "done" =>
        /\ ns.result.comparisons.match <=> (ParentNames = DomainNames)
        /\ ParentNames # DomainNames =>
              /\ ns.result.status = "error"
              /\ \E k \in 1..Len(ns.result.checks) :
                    ns.result.checks[k] = [type |-> "comparison", status |-> "error"]
              /\ HasCheck("missing_at_domain") <=> (ParentNames \ DomainNames # {})
              /\ HasCheck("missing_at_parent") <=> (DomainNames \ ParentNames # {})
              /\ HasCheck("missing_at_domain") \/ HasCheck("missing_at_parent")

\* a finished NS check where each side has a name the other has not
C11_Witness ==
    /\ ns.pc = "done"
    /\ ParentNames \ DomainNames # {}
    /\ DomainNames \ ParentNames # {}
    /\ ~ns.result.comparisons.match
    /\ HasCheck("missing_at_domain") /\ HasCheck("missing_at_parent")

\* C12: when the TLD is not in the registry, or the registry could not be loaded,
\* the parent delegation result has status error and no records, the NS check
\* returns its result without an exception, and the checks requested after it run
\* and get their entries.
C12_UnknownTldDegrades ==
    ns.lookup.kind \in {"no_registry", "no_tld"} =>
        /\ ns.parent_result.status = "error"
        /\ ns.parent_result.records = <<>>
        /\ \A k \in 1..Len(calls) : ~calls[k].raised
        /\ ns.pc = "done" =>
              /\ "ns" \in Keys(results.checks)
              /\ Get(results.checks, "ns").parent_delegation.status = "error"
              /\ Get(results.checks, "ns").parent_delegation.records = <<>>
        /\ pc = "returned" =>
              /\ Keys(results.checks) = {"ns", "aaaa"}
              /\ results.summary.total = 2

\* the report of a run whose registry was not loaded, with the entry of the check
\* that came after ns
C12_Witness ==
    /\ pc = "returned"
    /\ ns.lookup.kind = "no_registry"
    /\ Get(results.checks, "ns").status = "error"
    /\ Get(results.checks, "aaaa").status = "pass"

\* C13: when the TLD server picked does not answer, another server of the TLD is
\* tried; the probe gives status error with no records only when that fails too.
C13_TldServerFallback ==
    (ns.lookup.kind = "timeout" /\ ns.lookup.other_answers) =>
        ~(ns.parent_result.status = "error" /\ ns.parent_result.records = <<>>)

\* C14: every result of the NS check has a records key and an issues key, and a
\* status among pass, warning, error.
C14_NsResultKeys ==
    ns.pc = "done" =>
        /\ "records" \in DOMAIN ns.result
        /\ "issues" \in DOMAIN ns.result
        /\ ns.result.status \in {"pass", "warning", "error"}

\* the order of the sub-check types the specification gives
SubCheckOrder ==
    <<"parent_delegation", "domain_nameservers", "comparison", "missing_at_domain",
      "missing_at_parent", "recursive_queries", "same_class", "dns_servers_responded",
      "different_subnets", "glue_for_ns_records", "name_of_nameservers_valid",
      "is_ping_nameservers_work", "multiple_nameservers">>

\* C15: the sub-checks of the NS result are in the order parent_delegation,
\* domain_nameservers, comparison, (on mismatch only) missing_at_domain,
\* missing_at_parent, then recursive_queries, same_class, dns_servers_responded,
\* different_subnets, glue_for_ns_records, name_of_nameservers_valid,
\* is_ping_nameservers_work, multiple_nameservers, each of the unconditional
\* types once.
C15_NsSubCheckOrder ==
    ns.pc = "done" =>
        /\ [k \in 1..Len(ns.result.checks) |-> ns.result.checks[k].type]
              = SelectSeq(SubCheckOrder, HasCheck)
        /\ \A type \in ToSet(SubCheckOrder) \ {"missing_at_domain", "missing_at_parent"} :
              HasCheck(type)
        /\ (HasCheck("missing_at_domain") \/ HasCheck("missing_at_parent")) =>
              ParentNames # DomainNames

\* a finished NS check with all thirteen entries, whose probes went several ways
C15_Witness ==
    /\ ns.pc = "done"
    /\ Len(ns.result.checks) = 13
    /\ \E k \in 1..13 : ns.result.checks[k] = [type |-> "recursive_queries", status |-> "warning"]
    /\ \E k \in 1..13 : ns.result.checks[k] = [type |-> "is_ping_nameservers_work", status |-> "pass"]
    /\ \E k \in 1..13 : ns.result.checks[k] = [type |-> "same_class", status |-> "info"]

\* ---------------------------------------------------------------------------
\* The record checkers _check_mx_records, _check_spf_record and
\* _check_cname_records, each called on its own (specification SpecChecker).
\* The answers of the resolver are the environment's choice.
\* ---------------------------------------------------------------------------

MaxMX == 3         \* MX records in one answer set
MaxSpfTerms == 11  \* repetitions of one mechanism in an SPF record
MaxNS == 2         \* nameserver records handed to the glue and AXFR checks

\* Variants of the definitions below that deviate from the source in one place.
sort_by_priority_unsorted(mx_records) == mx_records

mx_cname_check_lenient(mx_records, env) ==
    IF \E k \in 1..Len(mx_records) : env[mx_records[k].host].cname
    THEN <<[type |-> "mx_cname_check", status |-> "warning"]>>
    ELSE <<[type |-> "mx_cname_check", status |-> "pass"]>>

EngineUnchanged ==
    UNCHANGED <<pc, via, domain, requested, checks_to_run, i, results, calls, base_path,
                varied, elapsed, timeout, response, ns, app>>

\* --- _check_mx_records ---

\* The rdata of an MX answer: the exchange as an absolute name and the
\* preference.
MxRdata ==
    [exchange : {<<"m",".","c","c",".">>, <<"n",".","c","c",".">>, <<"1",".","1",".">>},
     preference : {10, 20}]

RECURSIVE rstrip_dot(_)
rstrip_dot(s) ==
    IF s # <<>> /\ s[Len(s)] = "." THEN rstrip_dot(SubSeq(s, 1, Len(s) - 1)) ELSE s

\* What the resolver answers for each exchange: its A and AAAA records in
\* the order the code appends them, and whether a CNAME query has an answer.
MxEnvs ==
    LET m == <<"m",".","c","c">>
        n == <<"n",".","c","c">>
        d == <<"1",".","1">>
        A(ip) == [type |-> "A", ip |-> ip]
        AAAA(ip) == [type |-> "AAAA", ip |-> ip]
        private == <<10, 0, 0, 1>>
        ip6 == <<8193, 3512, 0, 0, 0, 0, 0, 1>>
        R(ips, cname) == [ips |-> ips, cname |-> cname]
    IN  { (m :> R(<<A(IP1)>>, FALSE) @@ n :> R(<<A(IP3), AAAA(ip6)>>, FALSE)
                @@ d :> R(<<A(IP2)>>, FALSE)),
          (m :> R(<<A(IP1)>>, TRUE) @@ n :> R(<<A(IP1)>>, FALSE) @@ d :> R(<<>>, FALSE)),
          (m :> R(<<A(private)>>, FALSE) @@ n :> R(<<>>, FALSE) @@ d :> R(<<A(IP2)>>, TRUE)),
          (m :> R(<<A(IP1)>>, FALSE) @@ n :> R(<<A(IP3)>>, FALSE) @@ d :> R(<<A(IP1)>>, FALSE)) }

\* An answer set: one to MaxMX distinct records, in the order of the answer.
MxAnswers ==
    {a \in UNION {[1..n -> MxRdata] : n \in 1..MaxMX} :
        \A j, k \in 1..Len(a) : a[j] = a[k] => j = k}

\* Lines 1322-1354: one record per rdata; error is "" when the key is absent.
mx_info(rdata, env) ==
    LET host == rstrip_dot(rdata.exchange)
        ips == env[host].ips
    IN  [host |-> host, priority |-> rdata.preference, ips |-> ips,
         error |-> IF ips = <<>> THEN "Does not resolve to any IP" ELSE ""]

\* list.sort(key=priority): ascending and stable.
RECURSIVE sort_by_priority(_)
sort_by_priority(mx_records) ==
    IF mx_records = <<>> THEN <<>>
    ELSE LET r == mx_records[Len(mx_records)]
             sorted == sort_by_priority(SubSeq(mx_records, 1, Len(mx_records) - 1))
         IN  SelectSeq(sorted, LAMBDA x : x.priority <= r.priority)
                \o <<r>> \o SelectSeq(sorted, LAMBDA x : x.priority > r.priority)

mx_cname_check(mx_records, env) ==
    IF \E k \in 1..Len(mx_records) : env[mx_records[k].host].cname
    THEN <<Check("mx_cname_check", "error")>>
    ELSE <<Check("mx_cname_check", "pass")>>

\* Lines 1359-1570: the sub-checks in program order.
MxChecks(mx_records, env) ==
    LET K == 1..Len(mx_records)
        Flag(type, bad, status) == <<Check(type, IF bad THEN status ELSE "pass")>>
        count == Len(mx_records)
        priorities == {mx_records[k].priority : k \in 1..Len(mx_records)}
        IsPrivate(ip) ==
            /\ Len(ip) = 4
            /\ \/ ip[1] = 10
               \/ ip[1] = 127
               \/ ip[1] = 172 /\ ip[2] >= 16 /\ ip[2] <= 31
               \/ ip[1] = 192 /\ ip[2] = 168
        \* host.replace('.', '').isdigit()
        LooksLikeIp(host) ==
            LET bare == SelectSeq(host, LAMBDA c : c # ".")
            IN  bare # <<>> /\ \A k \in 1..Len(bare) : bare[k] \in Digits
        all_ips == UNION {{<<k, j>> : j \in 1..Len(mx_records[k].ips)} : k \in K}
        ip_at(q) == mx_records[q[1]].ips[q[2]].ip
    IN  <<Check("mx_records", "info")>>
            \o Flag("mx_name_validity", \E k \in K : mx_records[k].error # "", "error")
            \o (IF count >= 2 THEN <<Check("mx_count", "pass")>>
                ELSE IF count = 1 THEN <<Check("mx_count", "warning")>> ELSE <<>>)
            \o mx_cname_check(mx_records, env)
            \o (IF count # Cardinality(priorities)
                THEN <<Check("mx_duplicate_priorities", "warning")>> ELSE <<>>)
            \o Flag("mx_ips_public",
                    \E q \in all_ips : IsPrivate(ip_at(q)), "error")
            \o Flag("mx_is_not_ip", \E k \in K : LooksLikeIp(mx_records[k].host), "error")
            \o <<Check("different_mx_records", "pass")>>
            \o <<Check("mismatched_mx_a", "pass")>>
            \o Flag("duplicate_mx_a",
                    \E q, r \in all_ips : q # r /\ ip_at(q) = ip_at(r), "warning")
            \o (IF all_ips # {} THEN <<Check("reverse_mx_a", "pass")>> ELSE <<>>)

mx_overall_status(checks) ==
    IF \E k \in 1..Len(checks) : checks[k].status = "error" THEN "error"
    ELSE IF \E k \in 1..Len(checks) : checks[k].status = "warning" THEN "warning"
    ELSE "pass"

\* Lines 1318-1354: the MX query is answered and every exchange is resolved.
MxResolve ==
    /\ chk.pc = "mx"
    /\ \E answers \in MxAnswers :
        chk' = [chk EXCEPT !.pc = "resolved", !.answers = answers, !.lookup = "answer",
                           !.mx_records = [k \in 1..Len(answers) |-> mx_info(answers[k], chk.env)]]
    /\ EngineUnchanged

\* Line 1357.
MxSort ==
    /\ chk.pc = "resolved"
    /\ chk' = [chk EXCEPT !.pc = "sorted", !.mx_records = sort_by_priority(chk.mx_records)]
    /\ EngineUnchanged

\* Lines 1359-1582.
MxReturn ==
    /\ chk.pc = "sorted"
    /\ LET checks == MxChecks(chk.mx_records, chk.env) IN
       chk' = [chk EXCEPT !.pc = "mx_done",
                          !.result = [status |-> mx_overall_status(checks),
                                      records |-> chk.mx_records, checks |-> checks,
                                      count |-> Len(chk.mx_records)]]
    /\ EngineUnchanged

\* Lines 1584-1595: NXDOMAIN or NoAnswer.
MxNoRecords ==
    /\ chk.pc = "mx"
    /\ chk' = [chk EXCEPT !.pc = "mx_done", !.lookup = "no_records",
                          !.result = [status |-> "info", records |-> <<>>,
                                      checks |-> <<Check("mx_records", "info")>>,
                                      count |-> 0]]
    /\ EngineUnchanged

\* Lines 1596-1607: any other exception of the MX query.
MxFails ==
    /\ chk.pc = "mx"
    /\ chk' = [chk EXCEPT !.pc = "mx_done", !.lookup = "exception",
                          !.result = [status |-> "error", error |-> "exception",
                                      records |-> <<>>,
                                      checks |-> <<Check("mx_records", "error")>>]]
    /\ EngineUnchanged

\* --- _check_spf_record ---

startswith(s, prefix) == Len(s) >= Len(prefix) /\ SubSeq(s, 1, Len(prefix)) = prefix

\* str.strip('"')
RECURSIVE strip_quotes(_)
strip_quotes(s) ==
    IF s # <<>> /\ s[1] = "\"" THEN strip_quotes(Tail(s))
    ELSE IF s # <<>> /\ s[Len(s)] = "\"" THEN strip_quotes(SubSeq(s, 1, Len(s) - 1))
    ELSE s

\* str.count(sub): occurrences from left to right that do not overlap.
count(s, sub) ==
    LET starts == {k \in 1..(Len(s) - Len(sub) + 1) : SubSeq(s, k, k + Len(sub) - 1) = sub}
        RECURSIVE from(_)
        from(p) ==
            LET later == {k \in starts : k >= p}
            IN  IF later = {} THEN 0
                ELSE 1 + from((CHOOSE k \in later : \A m \in later : k <= m) + Len(sub))
    IN  from(1)

V_SPF1 == <<"v","=","s","p","f","1">>

\* str.split(): the maximal runs of characters that are not whitespace.
RECURSIVE split_whitespace(_)
split_whitespace(s) ==
    IF s = <<>> THEN <<>>
    ELSE IF s[1] \in Whitespace THEN split_whitespace(Tail(s))
    ELSE LET ends == {k \in 1..Len(s) : k = Len(s) \/ s[k + 1] \in Whitespace}
             e == CHOOSE k \in ends : \A m \in ends : k <= m
         IN  <<SubSeq(s, 1, e)>> \o split_whitespace(SubSeq(s, e + 1, Len(s)))

validate_spf_syntax(spf_record) ==
    /\ startswith(spf_record, V_SPF1)
    /\ LET parts == split_whitespace(spf_record)
           last_part == IF parts # <<>> THEN parts[Len(parts)] ELSE <<>>
       IN  last_part \in {<<"~","a","l","l">>, <<"-","a","l","l">>,
                          <<"+","a","l","l">>, <<"?","a","l","l">>}

count_spf_dns_lookups(spf_record) ==
    LET lookup_mechanisms == << <<"i","n","c","l","u","d","e",":">>, <<"a",":">>,
                                <<"m","x",":">>, <<"e","x","i","s","t","s",":">>,
                                <<"r","e","d","i","r","e","c","t","=">> >>
        parts == split_whitespace(spf_record)
        bare == {k \in 1..Len(parts) : lower(parts[k]) \in {<<"a">>, <<"m","x">>}}
        RECURSIVE total(_)
        total(k) ==
            IF k = 0 THEN 0
            ELSE total(k - 1) + count(lower(spf_record), lookup_mechanisms[k])
    IN  total(Len(lookup_mechanisms)) + Cardinality(bare)

\* The TXT rdata the environment can answer with, as str(rdata) prints them
\* (in double quotes): SPF records made of one mechanism repeated up to
\* MaxSpfTerms times and an optional ending, and records that are not SPF.
SpfTexts ==
    LET Quoted(t) == <<"\"">> \o t \o <<"\"">>
        terms == {<<" ","a">>, <<" ","M","X">>, <<" ","i","n","c","l","u","d","e",":","x">>,
                  <<" ","a",":","m","x",":","x">>, <<" ","p","t","r">>, <<" ","i","p","4">>}
        endings == {<<>>, <<" ","-","a","l","l">>, <<" ","~","a","l","l">>, <<" ","a","l","l">>}
        RECURSIVE repeat(_, _)
        repeat(t, n) == IF n = 0 THEN <<>> ELSE t \o repeat(t, n - 1)
    IN  {Quoted(V_SPF1 \o repeat(t, n) \o e) : t \in terms, n \in 0..MaxSpfTerms, e \in endings}
            \cup {Quoted(<<"V","=","S","P","F","1"," ","-","a","l","l">>),
                  Quoted(<<"h","i">>)}

SPF_MINUS_ALL == <<"\"","v","=","s","p","f","1"," ","-","a","l","l","\"">>

\* An answer set: one record, or one record and a second one.
SpfAnswers ==
    {<<t>> : t \in SpfTexts}
        \cup {a \in {<<t, u>> : t \in SpfTexts, u \in {SPF_MINUS_ALL, <<"\"","h","i","\"">>}} :
                    a[1] # a[2]}

\* Lines 1613-1652: the result for a TXT answer set.
SpfResult(answers) ==
    LET txt_values == [k \in 1..Len(answers) |-> strip_quotes(answers[k])]
        spf_records == SelectSeq(txt_values, LAMBDA t : startswith(t, V_SPF1))
        spf_record == spf_records[1]
        lookup_count == count_spf_dns_lookups(spf_record)
        issues ==
            (IF Len(spf_records) > 1
             THEN <<"Multiple SPF records found (only one allowed)">> ELSE <<>>)
            \o (IF ~validate_spf_syntax(spf_record) THEN <<"Invalid SPF syntax">> ELSE <<>>)
            \o (IF lookup_count > 10 THEN <<"Too many DNS lookups in SPF">> ELSE <<>>)
            \o (IF Contains(lower(spf_record), <<"p","t","r">>)
                THEN <<"SPF contains deprecated 'ptr' mechanism">> ELSE <<>>)
    IN  IF spf_records = <<>>
        THEN [status |-> "info", record |-> <<>>, issues |-> <<"No SPF record found">>]
        ELSE [status |-> IF issues = <<>> THEN "pass" ELSE "warning",
              record |-> spf_record, issues |-> issues, dns_lookups |-> lookup_count]

\* Lines 1611-1652: the TXT query is answered.
SpfAnswer ==
    /\ chk.pc = "spf"
    /\ \E answers \in SpfAnswers :
        chk' = [chk EXCEPT !.pc = "spf_done", !.answers = answers,
                           !.result = SpfResult(answers)]
    /\ EngineUnchanged

\* Lines 1654-1660: the TXT query raises (NXDOMAIN and NoAnswer included).
SpfFails ==
    /\ chk.pc = "spf"
    /\ chk' = [chk EXCEPT !.pc = "spf_done",
                          !.result = [status |-> "error", error |-> "exception",
                                      record |-> <<>>,
                                      issues |-> <<"Failed to query SPF record">>]]
    /\ EngineUnchanged

\* --- _check_cname_records ---

subdomains == <<"www", "mail", "ftp", "blog", "shop">>

\* Lines 1771-1809: what _check_cname_for_host can return for one host.
check_cname_for_host ==
    { [status |-> "pass", resolves |-> TRUE, issues |-> <<>>],
      [status |-> "warning", resolves |-> FALSE, issues |-> <<"CNAME target does not resolve">>],
      [status |-> "info", resolves |-> FALSE, issues |-> <<>>],
      [status |-> "error", resolves |-> FALSE, issues |-> <<"Failed to query CNAME">>] }

\* Lines 1753-1755: one turn of the loop over the subdomains.
CnameForHost ==
    /\ chk.pc = "cname"
    /\ Len(chk.records) < Len(subdomains)
    /\ \E r \in check_cname_for_host :
        chk' = [chk EXCEPT !.records =
                    Append(@, [key |-> subdomains[Len(chk.records) + 1], value |-> r])]
    /\ EngineUnchanged

\* Lines 1757-1769: the CNAME query at the apex and the result.
CnameApex ==
    /\ chk.pc = "cname"
    /\ Len(chk.records) = Len(subdomains)
    /\ \E apex \in {"cname", "no_cname", "exception"} :
        chk' = [chk EXCEPT !.pc = "cname_done", !.apex = apex,
                           !.result = [status |-> "pass", records |-> chk.records,
                                       issues |-> IF apex = "cname"
                                            THEN <<"CNAME record found at zone apex (not allowed)">>
                                            ELSE <<>>]]
    /\ EngineUnchanged

\* --- _check_glue_records and _check_axfr ---

\* What _check_ns_records returns to the two checkers that start with it:
\* its status and its records (host and ips, the ips being strings).
NsChecks ==
    LET hosts == {NS_DOMAIN, <<"n",".","d",".","c","c">>, <<"x","d",".","c","c">>, HostList[1]}
        records == [host : hosts, ips : {<<>>, <<IP1>>, <<IP1, IP2>>}]
    IN  {c \in [status : {"pass", "error"},
                records : UNION {[1..n -> records] : n \in 0..MaxNS}] :
            c.status = "pass" => c.records # <<>>}

\* Lines 2054-2119.  ip_info is a string, so ip_info['ip'] (2071) raises
\* TypeError for the first record that has an address, and the handler of
\* 2114-2119 answers.
GlueCheck ==
    /\ chk.pc = "glue"
    /\ \E ns_check \in NsChecks :
        LET records == ns_check.records
            endswith(s, suffix) ==
                Len(s) >= Len(suffix) /\ SubSeq(s, Len(s) - Len(suffix) + 1, Len(s)) = suffix
            needs_glue(host) == endswith(host, <<".">> \o domain) \/ host = domain
            glue_info == [k \in 1..Len(records) |->
                            [nameserver |-> records[k].host,
                             needs_glue |-> needs_glue(records[k].host),
                             has_glue |-> FALSE, glue_records |-> <<>>]]
            issues == SelectSeq(glue_info, LAMBDA info : info.needs_glue)
            result ==
                IF ns_check.status = "error"
                THEN [status |-> "error", records |-> <<>>,
                      issues |-> <<"Cannot check glue records: NS record check failed">>]
                ELSE IF \E k \in 1..Len(records) : records[k].ips # <<>>
                THEN [status |-> "error", records |-> <<>>,
                      issues |-> <<"Glue records check failed: string indices must be integers">>]
                ELSE [status |-> IF issues # <<>> THEN "error" ELSE "pass",
                      records |-> glue_info,
                      issues |-> [k \in 1..Len(issues) |-> "needs glue records but none found"]]
        IN  chk' = [chk EXCEPT !.pc = "glue_done", !.ns_check = ns_check, !.result = result]
    /\ EngineUnchanged

\* Lines 2187-2244.  ip_info['ip'] (2205) raises TypeError before the first
\* transfer is attempted, and the handler of 2239-2244 answers; the servers
\* that would allow a transfer are the environment's.
AxfrCheck ==
    /\ chk.pc = "axfr"
    /\ \E ns_check \in NsChecks, allowed \in SUBSET {IP1, IP2} :
        LET records == ns_check.records
            result ==
                IF ns_check.status = "error"
                THEN [status |-> "error", open |-> FALSE,
                      issues |-> <<"Cannot check AXFR: NS record check failed">>]
                ELSE IF \E k \in 1..Len(records) : records[k].ips # <<>>
                THEN [status |-> "error", open |-> FALSE,
                      issues |-> <<"AXFR check failed: string indices must be integers">>]
                ELSE [status |-> "pass", open |-> FALSE, servers |-> <<>>,
                      issues |-> <<"Zone transfers are properly restricted on all nameservers.">>]
        IN  chk' = [chk EXCEPT !.pc = "axfr_done", !.ns_check = ns_check,
                               !.allowed = allowed, !.result = result]
    /\ EngineUnchanged

\* --- _check_ptr_records ---

\* Lines 1811-1873.  The check starts with _check_mx_records (1814), so it
\* continues from a finished MX check; the PTR rdata of each address ("" when
\* the reverse lookup raises) is the environment's.
PtrCheck ==
    /\ chk.pc = "mx_done"
    /\ \E ptr_of \in
            { [ip \in {IP1, IP2, IP3, <<10, 0, 0, 1>>} |-> <<>>],
              [ip \in {IP1, IP2, IP3, <<10, 0, 0, 1>>} |-> <<"x",".","c","c",".">>],
              [ip \in {IP1, IP2, IP3, <<10, 0, 0, 1>>} |->
                    IF ip = IP1 THEN <<"M",".","C","C",".">> ELSE <<>>],
              [ip \in {IP1, IP2, IP3, <<10, 0, 0, 1>>} |->
                    IF ip = IP3 THEN <<"n",".","c","c",".">>
                    ELSE IF ip = IP2 THEN <<"1",".","1",".">> ELSE <<"M",".","C","C",".">>] } :
        LET mx_check == chk.result
            \* _check_ptr_for_ip, lines 1849-1873
            check_ptr_for_ip(ip, mx_host) ==
                LET ptr_value == rstrip_dot(ptr_of[ip])
                    matches == lower(ptr_value) = lower(mx_host)
                IN  IF ptr_of[ip] = <<>>
                    THEN [ip |-> ip, mx_host |-> mx_host, status |-> "error", ptr |-> <<>>,
                          matches_mx |-> FALSE]
                    ELSE [ip |-> ip, mx_host |-> mx_host,
                          status |-> IF matches THEN "pass" ELSE "warning",
                          ptr |-> ptr_value, matches_mx |-> matches]
            for_record(mx_record) ==
                LET v4 == SelectSeq(mx_record.ips, LAMBDA ip_info : ip_info.type = "A")
                IN  [k \in 1..Len(v4) |-> check_ptr_for_ip(v4[k].ip, mx_record.host)]
            RECURSIVE ptr_results(_)
            ptr_results(mx_records) ==
                IF mx_records = <<>> THEN <<>>
                ELSE for_record(mx_records[1]) \o ptr_results(Tail(mx_records))
            records == ptr_results(mx_check.records)
            failed_ptrs == SelectSeq(records, LAMBDA r : r.status = "error")
            ptr ==
                IF mx_check.status = "error" \/ mx_check.records = <<>>
                THEN [status |-> "info", records |-> <<>>,
                      issues |-> <<"No MX records to check PTR for">>]
                ELSE [status |-> IF failed_ptrs # <<>> THEN "warning" ELSE "pass",
                      records |-> records,
                      issues |-> IF failed_ptrs # <<>>
                                 THEN <<"MX servers missing PTR records">> ELSE <<>>]
        IN  chk' = [chk EXCEPT !.pc = "ptr_done", !.ptr_of = ptr_of, !.ptr = ptr]
    /\ EngineUnchanged

\* --- _check_soa_record ---

\* Lines 970-1125, with _check_soa_serial_consistency (1127-1182).  The
\* environment's: whether the SOA query is answered, the timers of the SOA
\* record, whether the NS query of the serial check is answered, and the
\* serial each nameserver reports (-1 when it reports none).
SoaCheck ==
    /\ chk.pc = "soa"
    /\ \E refresh \in {3599, 3600, 86400, 86401}, retry \in {1799, 1800, 7200, 7201},
          expire \in {604799, 604800, 2419200, 2419201}, minimum \in {299, 300, 86400, 86401},
          serials \in UNION {[1..n -> {-1, 1, 2}] : n \in 0..MaxNS},
          lookups \in {"answered", "ns_raises", "soa_raises"} :
        LET soa == [serial |-> 1, refresh |-> refresh, retry |-> retry, expire |-> expire,
                    minimum |-> minimum]
            unique_serials == ToSet(serials) \ {-1}
            serial_check ==
                Check("soa_serial_consistency",
                      IF lookups = "ns_raises" THEN "info"
                      ELSE IF Cardinality(unique_serials) = 1 THEN "pass"
                      ELSE IF Cardinality(unique_serials) > 1 THEN "error"
                      ELSE "warning")
            checks ==
                << Check("soa_record", "info"),
                   serial_check,
                   Check("soa_refresh", IF refresh >= 3600 /\ refresh <= 86400 THEN "pass"
                                        ELSE IF refresh < 3600 THEN "warning" ELSE "warning"),
                   Check("soa_retry", IF retry >= 1800 /\ retry <= 7200 THEN "pass"
                                      ELSE IF retry < 1800 THEN "warning" ELSE "warning"),
                   Check("soa_expire", IF expire >= 604800 /\ expire <= 2419200 THEN "pass"
                                       ELSE IF expire < 604800 THEN "warning" ELSE "pass"),
                   Check("soa_minimum", IF minimum >= 300 /\ minimum <= 86400 THEN "pass"
                                        ELSE IF minimum < 300 THEN "warning" ELSE "warning") >>
            soa_status ==
                IF \E k \in 1..Len(checks) : checks[k].status = "error" THEN "error"
                ELSE IF \E k \in 1..Len(checks) : checks[k].status = "warning" THEN "warning"
                ELSE "pass"
            result ==
                IF lookups = "soa_raises"
                THEN [status |-> "error", error |-> "exception", record |-> <<>>,
                      checks |-> <<Check("soa_record", "error")>>]
                ELSE [status |-> soa_status, record |-> soa, checks |-> checks]
        IN  chk' = [chk EXCEPT !.pc = "soa_done", !.lookups = lookups,
                               !.serials = IF lookups = "answered" THEN serials ELSE <<>>,
                               !.result = result]
    /\ EngineUnchanged

\* --- _check_www_cname ---

max_depth == 10

\* Lines 2394-2399: the CNAME query for www.<domain>; chk.cname gives the
\* CNAME rdata of every name (<<>> when the query raises NXDOMAIN or
\* NoAnswer).
WwwCname ==
    /\ chk.pc = "www"
    /\ LET cname_target == rstrip_dot(chk.cname[chk.www_domain]) IN
       IF chk.cname[chk.www_domain] = <<>>
       THEN chk' = [chk EXCEPT !.pc = "www_done",
                               !.result = [status |-> "info", cname_chain |-> <<>>,
                                           final_target |-> chk.www_domain]]
       ELSE chk' = [chk EXCEPT !.pc = "www_loop", !.current_target = cname_target,
                               !.cname_chain = <<[from |-> chk.www_domain, to |-> cname_target]>>]
    /\ EngineUnchanged

\* Lines 2406-2412: one turn of the while loop that finds a further CNAME.
WwwFollow ==
    /\ chk.pc = "www_loop"
    /\ chk.depth < max_depth
    /\ chk.cname[chk.current_target] # <<>>
    /\ LET next_target == rstrip_dot(chk.cname[chk.current_target]) IN
       chk' = [chk EXCEPT !.cname_chain = Append(@, [from |-> chk.current_target,
                                                     to |-> next_target]),
                          !.current_target = next_target,
                          !.depth = @ + 1]
    /\ EngineUnchanged

\* Lines 2406-2447: the loop ends (depth reached, or no further CNAME) and
\* the final target is queried for A records.
WwwReturn ==
    /\ chk.pc = "www_loop"
    /\ chk.depth >= max_depth \/ chk.cname[chk.current_target] = <<>>
    /\ \E has_a_records \in BOOLEAN :
        chk' = [chk EXCEPT !.pc = "www_done",
                           !.result = [status |-> IF has_a_records THEN "pass" ELSE "warning",
                                       cname_chain |-> chk.cname_chain,
                                       final_target |-> chk.current_target]]
    /\ EngineUnchanged

\* --- run_all_checks twice on the same DNS data ---
\* The data of the zone: what each TLD server of the registry answers to the
\* delegation query, and which probe labels nonexistent-<n>.<domain> have an A
\* record.  A run draws one TLD server (random.choice) and one probe label
\* (random.randint).
TldServers == {"s1", "s2"}
ProbeLabels == {1000, 9999}

StableData ==
    [tld : [TldServers -> {[kind |-> "response", authority |-> <<<<HostList[1]>>>>, other_answers |-> TRUE],
                           [kind |-> "response", authority |-> <<<<HostList[2]>>>>, other_answers |-> TRUE],
                           [kind |-> "timeout", authority |-> <<>>, other_answers |-> TRUE]}],
     resolving : SUBSET ProbeLabels,
     rest : {"pass", "warning"}]

StableRun ==
    /\ pc = "checker"
    /\ chk.pc = "twice"
    /\ Len(chk.reports) < 2
    /\ \E tld_ns \in TldServers, n \in ProbeLabels :
         LET addr == [h \in Hosts |-> <<>>]
             parent_result == get_parent_delegation(chk.data.tld[tld_ns], addr)
             domain_ns_result ==
                 get_domain_nameservers([kind |-> "answer", answer |-> <<HostList[1]>>], addr)
             ns_status == overall_status(parent_result, domain_ns_result)
             status_of(t) ==
                 CASE t = "ns" -> ns_status
                   [] t = "domain_status" ->
                        IF n \in chk.data.resolving THEN "warning" ELSE chk.data.rest
                   [] t \in {"glue", "axfr"} ->
                        IF ns_status = "error" THEN "error" ELSE "pass"
                   [] OTHER -> chk.data.rest
             report == [k \in 1..Len(all_check_types) |->
                          [key |-> ResultKey(all_check_types[k]),
                           status |-> status_of(all_check_types[k])]]
         IN  chk' = [chk EXCEPT !.reports = Append(@, report),
                                !.picks = Append(@, <<tld_ns, n>>)]
    /\ EngineUnchanged

\* --- app.py: rate_limit ---
\* The configuration is read from the environment (defaults 10, 300, 3600); the
\* model runs it scaled down, with BLOCK_DURATION > RATE_LIMIT_WINDOW as in the
\* defaults.  Time is time.time(), here in whole seconds up to MaxTime.
RATE_LIMIT_REQUESTS == 2
RATE_LIMIT_WINDOW == 2
BLOCK_DURATION == 3
MaxTime == 4

Clients == {"198.51.100.7", "203.0.113.9"}

AppUnchanged ==
    UNCHANGED <<pc, via, domain, requested, checks_to_run, i, results, calls, base_path,
                varied, elapsed, timeout, response, ns, chk>>

\* if current_time < blocked_ips[client_ip]
still_blocked_late(blocked_until, current_time) == current_time <= blocked_until

still_blocked(blocked_until, current_time) == current_time < blocked_until

\* while requests and requests[0] < current_time - RATE_LIMIT_WINDOW: requests.popleft()
RECURSIVE popleft_old(_, _)
popleft_old(requests, current_time) ==
    IF requests # <<>> /\ Head(requests) < current_time - RATE_LIMIT_WINDOW
    THEN popleft_old(Tail(requests), current_time)
    ELSE requests

\* if len(requests) >= RATE_LIMIT_REQUESTS
limit_exceeded_late(requests) == Len(requests) > RATE_LIMIT_REQUESTS

limit_exceeded(requests) == Len(requests) >= RATE_LIMIT_REQUESTS

\* one request through the rate_limit decorator.  admitted (every time at which
\* the wrapped view ran), last and tick record the history and the response.
RateLimit ==
    /\ pc = "app"
    /\ app.pc = "rate"
    /\ \E client_ip \in Clients :
         LET current_time == app.now
             has_entry == client_ip \in DOMAIN app.blocked_ips
             requests == popleft_old(app.rate_limit_store[client_ip], current_time)
             answered(code) == [ip |-> client_ip, code |-> code, was_blocked |-> has_entry]
         IN  IF has_entry /\ still_blocked(app.blocked_ips[client_ip], current_time)
             THEN app' = [app EXCEPT !.last = answered(429), !.tick = ~@]
             ELSE IF limit_exceeded(requests)
             THEN app' = [app EXCEPT
                            !.blocked_ips =
                                [x \in DOMAIN @ \cup {client_ip} |->
                                    IF x = client_ip THEN current_time + BLOCK_DURATION
                                    ELSE @[x]],
                            !.rate_limit_store[client_ip] = requests,
                            !.last = answered(429), !.tick = ~@]
             ELSE app' = [app EXCEPT
                            !.blocked_ips = [x \in DOMAIN @ \ {client_ip} |-> @[x]],
                            !.rate_limit_store[client_ip] = Append(requests, current_time),
                            !.admitted[client_ip] = Append(@, current_time),
                            !.last = answered(200), !.tick = ~@]
    /\ AppUnchanged

\* --- app.py: CSRFManager ---
\* CSRF_TOKEN_EXPIRES is read from the environment (default 3600); scaled down.
CSRF_TOKEN_EXPIRES == 2
MaxClock == 3

\* if metadata['usage_count'] > 100:  # Max 100 uses per token
max_uses == 100

\* A user agent, by what _hash_user_agent reads of it: the browser and OS words
\* its lower-cased text contains, and its length.
UserAgents ==
    {[has |-> {"chrome", "safari", "windows"}, len |-> 20],
     [has |-> {"chrome", "windows"}, len |-> 20],
     [has |-> {"firefox", "linux"}, len |-> 20]}

\* the fingerprint under the HMAC: first browser and first OS of the two lists
\* that occur, and the length (the truncated HMAC is taken as injective)
hash_user_agent(user_agent) ==
    LET browsers == <<"chrome", "firefox", "safari", "edge", "opera">>
        os_list == <<"windows", "macos", "linux", "android", "ios">>
        first(list) ==
            LET hits == SelectSeq(list, LAMBDA w : w \in user_agent.has)
            IN  IF hits = <<>> THEN <<>> ELSE <<Head(hits)>>
    IN  <<first(browsers) \o first(os_list), user_agent.len>>

\* the tokens: none, the one generate_token signs (its nonce is fresh, so it is
\* issued once), and one that was never issued.  A client can present a signed
\* token only once it has been issued.
Tokens == {"", "jwt1", "forged"}

\* _cleanup_token
cleanup_token_keep(csrf_tokens, token) == csrf_tokens

cleanup_token(csrf_tokens, token) ==
    [t \in DOMAIN csrf_tokens \ {token} |-> csrf_tokens[t]]

GenerateToken ==
    /\ pc = "app"
    /\ app.pc = "csrf"
    /\ "jwt1" \notin DOMAIN app.payload
    /\ \E client_ip \in Clients, user_agent \in UserAgents :
         LET current_time == app.now
             token_data == [ip |-> <<"hmac", client_ip>>,
                            ua_hash |-> hash_user_agent(user_agent)]
             add(f, v) == [t \in DOMAIN f \cup {"jwt1"} |-> IF t = "jwt1" THEN v ELSE f[t]]
         IN  app' = [app EXCEPT
                       !.payload = add(@, [data |-> token_data,
                                           exp |-> current_time + CSRF_TOKEN_EXPIRES]),
                       !.csrf_tokens = add(@, [ip_hash |-> token_data.ip,
                                               ua_hash |-> token_data.ua_hash,
                                               created |-> current_time,
                                               usage_count |-> 0])]
    /\ AppUnchanged

\* validate_token; last_used is written and never read, and is left out.
\* accepted, last and tick record what the calls returned.
ValidateToken ==
    /\ pc = "app"
    /\ app.pc = "csrf"
    /\ \E token \in {"", "forged"} \cup DOMAIN app.payload, client_ip \in Clients, user_agent \in UserAgents :
         LET current_time == app.now
             returned(ok, tokens) ==
                 [app EXCEPT !.csrf_tokens = tokens,
                             !.accepted[token] = IF ok THEN @ + 1 ELSE @,
                             !.last = [token |-> token, ok |-> ok],
                             !.tick = ~@]
         IN  IF token = "" \/ token \notin DOMAIN app.csrf_tokens
             THEN app' = returned(FALSE, app.csrf_tokens)
             ELSE LET payload == app.payload[token]
                      metadata == app.csrf_tokens[token]
                  IN  IF \/ payload.exp <= current_time   \* jwt.decode: ExpiredSignatureError
                         \/ current_time > payload.exp
                         \/ payload.data.ip # <<"hmac", client_ip>>
                         \/ payload.data.ua_hash # hash_user_agent(user_agent)
                         \/ metadata.usage_count > max_uses
                      THEN app' = returned(FALSE, cleanup_token(app.csrf_tokens, token))
                      ELSE app' = returned(TRUE, [app.csrf_tokens EXCEPT
                                                    ![token].usage_count = @ + 1])
    /\ AppUnchanged

\* before_request: cleanup_expired_tokens
BeforeRequest ==
    /\ pc = "app"
    /\ app.pc = "csrf"
    /\ LET current_time == app.now
           expired_tokens == {t \in DOMAIN app.csrf_tokens :
                                current_time - app.csrf_tokens[t].created > CSRF_TOKEN_EXPIRES}
       IN  /\ expired_tokens # {}
           /\ app' = [app EXCEPT !.csrf_tokens =
                                    [t \in DOMAIN @ \ expired_tokens |-> @[t]]]
    /\ AppUnchanged

\* time.time() moves on
Advance ==
    /\ pc = "app"
    /\ app.now < (IF app.pc = "rate" THEN MaxTime ELSE MaxClock)
    /\ app' = [app EXCEPT !.now = @ + 1]
    /\ AppUnchanged

InitApp ==
    /\ pc = "app"
    /\ via = "direct"
    /\ domain = NS_DOMAIN
    /\ requested = [given |-> FALSE, list |-> <<>>]
    /\ checks_to_run = <<>>
    /\ i = 0
    /\ results = NoResults
    /\ calls = <<>>
    /\ base_path = "success"
    /\ varied = 0
    /\ elapsed = 0
    /\ timeout = 0
    /\ response = NoResponse
    /\ ns = NsIdle
    /\ chk = ChkIdle
    /\ \/ app = [pc |-> "rate", now |-> 0,
                 rate_limit_store |-> [c \in Clients |-> <<>>],
                 blocked_ips |-> [c \in {} |-> 0],
                 admitted |-> [c \in Clients |-> <<>>],
                 last |-> [ip |-> "", code |-> 0, was_blocked |-> FALSE],
                 tick |-> FALSE]
       \/ app = [pc |-> "csrf", now |-> 0,
                 csrf_tokens |-> [t \in {} |-> 0],
                 payload |-> [t \in {} |-> 0],
                 accepted |-> [t \in Tokens |-> 0],
                 last |-> [token |-> "", ok |-> FALSE],
                 tick |-> FALSE]

NextApp == RateLimit \/ GenerateToken \/ ValidateToken \/ BeforeRequest \/ Advance

SpecApp == InitApp /\ [][NextApp]_vars

\* --- the specification ---

InitChecker ==
    /\ pc = "checker"
    /\ via = "direct"
    /\ domain = NS_DOMAIN
    /\ requested = [given |-> FALSE, list |-> <<>>]
    /\ checks_to_run = <<>>
    /\ i = 0
    /\ results = NoResults
    /\ calls = <<>>
    /\ base_path = "success"
    /\ varied = 0
    /\ elapsed = 0
    /\ timeout = 0
    /\ response = NoResponse
    /\ ns = NsIdle
    /\ app = AppIdle
    /\ \/ \E env \in MxEnvs :
            chk = [pc |-> "mx", env |-> env, answers |-> <<>>, lookup |-> "none",
                   mx_records |-> <<>>, result |-> NoNsResult, ptr_of |-> <<>>,
                   ptr |-> NoNsResult]
       \/ chk = [pc |-> "spf", answers |-> <<>>, result |-> NoNsResult]
       \/ chk = [pc |-> "cname", records |-> <<>>, apex |-> "none", result |-> NoNsResult]
       \/ chk = [pc |-> "soa", lookups |-> "none", serials |-> <<>>, result |-> NoNsResult]
       \/ \E cname \in [{<<"w">>, <<"a">>, <<"b">>} -> {<<>>, <<"w",".">>, <<"a",".">>, <<"b",".">>}] :
            chk = [pc |-> "www", cname |-> cname, www_domain |-> <<"w">>,
                   current_target |-> <<>>, cname_chain |-> <<>>, depth |-> 0,
                   result |-> NoNsResult]
       \/ chk = [pc |-> "glue", ns_check |-> NoNsResult, result |-> NoNsResult]
       \/ chk = [pc |-> "axfr", ns_check |-> NoNsResult, allowed |-> {}, result |-> NoNsResult]
       \/ \E data \in StableData :
            chk = [pc |-> "twice", data |-> data, reports |-> <<>>, picks |-> <<>>]

NextChecker ==
    \/ MxResolve \/ MxSort \/ MxReturn \/ MxNoRecords \/ MxFails
    \/ SpfAnswer \/ SpfFails
    \/ CnameForHost \/ CnameApex
    \/ GlueCheck \/ AxfrCheck
    \/ PtrCheck \/ SoaCheck
    \/ WwwCname \/ WwwFollow \/ WwwReturn
    \/ StableRun

SpecChecker == InitChecker /\ [][NextChecker]_vars

MxDone == chk.pc \in {"mx_done", "ptr_done"}

MxHasCheck(c) == \E k \in 1..Len(chk.result.checks) : chk.result.checks[k] = c

\* C16: the MX records of the result are in ascending order of priority for
\* every answer set; records of equal priority are all kept, and when two
\* records share a priority the sub-check mx_duplicate_priorities is present
\* with status warning.
C16_MxSortedByPriority ==
    (MxDone /\ chk.lookup = "answer") =>
        LET records == chk.result.records
        IN  /\ \A j, k \in 1..Len(records) : j < k => records[j].priority <= records[k].priority
            /\ Len(records) = Len(chk.answers)
            /\ \A k \in 1..Len(chk.answers) :
                \E j \in 1..Len(records) :
                    /\ records[j].host = rstrip_dot(chk.answers[k].exchange)
                    /\ records[j].priority = chk.answers[k].preference
            /\ (\E j, k \in 1..Len(records) : j # k /\ records[j].priority = records[k].priority)
                    => MxHasCheck(Check("mx_duplicate_priorities", "warning"))

C16_Witness ==
    /\ MxDone
    /\ Len(chk.answers) = 3
    /\ chk.answers[1].preference = 20
    /\ chk.answers[2].preference = 10
    /\ chk.answers[3].preference = 10
    /\ chk.result.records[1].host = rstrip_dot(chk.answers[2].exchange)
    /\ chk.result.records[2].host = rstrip_dot(chk.answers[3].exchange)
    /\ chk.result.records[3].priority = 20
    /\ MxHasCheck(Check("mx_duplicate_priorities", "warning"))

MxStatusRule ==
    /\ (\E k \in 1..Len(chk.result.records) : chk.env[chk.result.records[k].host].cname)
            => (MxHasCheck(Check("mx_cname_check", "error")) /\ chk.result.status = "error")
    /\ chk.result.status =
            IF \E k \in 1..Len(chk.result.checks) : chk.result.checks[k].status = "error"
            THEN "error"
            ELSE IF \E k \in 1..Len(chk.result.checks) : chk.result.checks[k].status = "warning"
                 THEN "warning"
                 ELSE "pass"

\* C17 as stated: for every MX result, an exchange with a CNAME makes
\* mx_cname_check and the overall status error, and the overall status is
\* error when any sub-check is error, else warning when any is warning, else
\* pass.
C17_MxStatusRuleEveryResult == MxDone => MxStatusRule

\* C17, amended: the rule holds for every MX result except that of a domain
\* without MX records (NXDOMAIN or NoAnswer), whose only sub-check is info
\* and whose overall status is info.
C17_MxStatusRule ==
    /\ (MxDone /\ chk.lookup # "no_records") => MxStatusRule
    /\ (MxDone /\ chk.lookup = "no_records") =>
            /\ chk.result.status = "info"
            /\ chk.result.checks = <<Check("mx_records", "info")>>

C17_Witness ==
    /\ MxDone
    /\ chk.lookup = "answer"
    /\ \E k \in 1..Len(chk.result.records) : chk.env[chk.result.records[k].host].cname
    /\ MxHasCheck(Check("mx_cname_check", "error"))
    /\ chk.result.status = "error"

SpfDone == chk.pc = "spf_done"

\* C18: every SPF result carries dns_lookups, an integer that is at least
\* zero; whenever dns_lookups is greater than 10 the status is not pass; and
\* for the single TXT record "v=spf1 -all" the status is pass with
\* dns_lookups equal to 0.
C18_SpfDnsLookups ==
    SpfDone =>
        /\ "dns_lookups" \in DOMAIN chk.result
        /\ chk.result.dns_lookups \in Nat
        /\ chk.result.dns_lookups > 10 => chk.result.status # "pass"
        /\ chk.answers = <<SPF_MINUS_ALL>> =>
                (chk.result.status = "pass" /\ chk.result.dns_lookups = 0)

\* The part of C18 that the code keeps: the same for the results that
\* report an SPF record.
SpfDnsLookupsWhenFound ==
    (SpfDone /\ chk.result.status \in {"pass", "warning"}) =>
        /\ "dns_lookups" \in DOMAIN chk.result
        /\ chk.result.dns_lookups \in Nat
        /\ chk.result.dns_lookups > 10 => chk.result.status # "pass"
        /\ chk.answers = <<SPF_MINUS_ALL>> =>
                (chk.result.status = "pass" /\ chk.result.dns_lookups = 0)

SpfManyLookups == SpfDone /\ chk.result.status = "warning" /\ chk.result.dns_lookups = 11

CnameDone == chk.pc = "cname_done"

\* C19: whenever a CNAME record exists at the zone apex, the status of the
\* CNAME check is error, whatever the results for www, mail, ftp, blog and
\* shop.
C19_ApexCnameIsError ==
    (CnameDone /\ chk.apex = "cname") => chk.result.status = "error"

\* C20: when the wildcard check is requested through run_all_checks, the
\* wildcard entry of the report has has_wildcard true and status warning if a
\* probed nonexistent subdomain resolves, and status pass if none resolves;
\* so in either case the entry carries has_wildcard and its status is
\* warning or pass.
C20_WildcardEntry ==
    (Returned /\ "wildcard" \in Keys(results.checks)) =>
        LET entry == Get(results.checks, "wildcard")
        IN  /\ "has_wildcard" \in DOMAIN entry
            /\ entry.status \in {"warning", "pass"}

NsCheckIps == UNION {ToSet(chk.ns_check.records[k].ips) : k \in 1..Len(chk.ns_check.records)}

\* C21: in the AXFR check a zone transfer is attempted at every IP of every
\* nameserver of the NS check; if at least one attempt succeeds the status is
\* error, and if the nameservers have IPs and every attempt is refused the
\* status is pass.
C21_AxfrStatus ==
    (chk.pc = "axfr_done" /\ chk.ns_check.status # "error") =>
        /\ "servers" \in DOMAIN chk.result
        /\ \A k \in 1..Len(chk.ns_check.records) :
            \A ip \in ToSet(chk.ns_check.records[k].ips) :
                \E j \in 1..Len(chk.result.servers) :
                    /\ chk.result.servers[j].nameserver = chk.ns_check.records[k].host
                    /\ chk.result.servers[j].ip = ip
        /\ NsCheckIps \cap chk.allowed # {} => chk.result.status = "error"
        /\ (NsCheckIps # {} /\ NsCheckIps \cap chk.allowed = {}) => chk.result.status = "pass"

InBailiwick(host) ==
    \/ host = domain
    \/ /\ Len(host) > Len(domain)
       /\ SubSeq(host, Len(host) - Len(domain), Len(host)) = <<".">> \o domain

\* C22: in the GLUE check the status is error exactly when some in-bailiwick
\* nameserver (hostname equal to the domain or ending with "." + domain) has
\* no glue address.
C22_GlueStatus ==
    (chk.pc = "glue_done" /\ chk.ns_check.status # "error") =>
        (chk.result.status = "error" <=>
            \E k \in 1..Len(chk.ns_check.records) :
                /\ InBailiwick(chk.ns_check.records[k].host)
                /\ chk.ns_check.records[k].ips = <<>>)

\* What the GLUE check does when no nameserver has an address: the stated
\* rule.
GlueStatusWithoutAddresses ==
    (chk.pc = "glue_done" /\ chk.ns_check.status # "error" /\ NsCheckIps = {}) =>
        (chk.result.status = "error" <=>
            \E k \in 1..Len(chk.ns_check.records) : InBailiwick(chk.ns_check.records[k].host))

PtrEntryStatus(ip, mx_host) ==
    IF chk.ptr_of[ip] = <<>> THEN "error"
    ELSE IF lower(rstrip_dot(chk.ptr_of[ip])) = lower(mx_host) THEN "pass"
    ELSE "warning"

\* C23: in the PTR check each MX IPv4 address gets an entry whose status is
\* pass when its PTR equals the MX exchange case-insensitively, warning when
\* a PTR exists but differs and error when there is no PTR; the overall
\* status is warning if any entry is warning or error, and pass only when
\* every entry is pass.
C23_PtrStatus ==
    chk.pc = "ptr_done" =>
        /\ \A k \in 1..Len(chk.result.records) :
            \A a \in 1..Len(chk.result.records[k].ips) :
                chk.result.records[k].ips[a].type = "A" =>
                    \E j \in 1..Len(chk.ptr.records) :
                        /\ chk.ptr.records[j].ip = chk.result.records[k].ips[a].ip
                        /\ chk.ptr.records[j].mx_host = chk.result.records[k].host
                        /\ chk.ptr.records[j].status =
                                PtrEntryStatus(chk.result.records[k].ips[a].ip,
                                               chk.result.records[k].host)
        /\ (\E j \in 1..Len(chk.ptr.records) : chk.ptr.records[j].status \in {"warning", "error"})
                => chk.ptr.status = "warning"
        /\ chk.ptr.status = "pass" =>
                \A j \in 1..Len(chk.ptr.records) : chk.ptr.records[j].status = "pass"

\* What the PTR check does when the MX check did not end in error: every
\* IPv4 address has its entry with the stated status, and the overall status
\* is warning exactly when some entry is error.
PtrStatusAsCoded ==
    (chk.pc = "ptr_done" /\ chk.result.status # "error" /\ chk.result.records # <<>>) =>
        /\ \A k \in 1..Len(chk.result.records) :
            \A a \in 1..Len(chk.result.records[k].ips) :
                chk.result.records[k].ips[a].type = "A" =>
                    \E j \in 1..Len(chk.ptr.records) :
                        /\ chk.ptr.records[j].ip = chk.result.records[k].ips[a].ip
                        /\ chk.ptr.records[j].mx_host = chk.result.records[k].host
                        /\ chk.ptr.records[j].status =
                                PtrEntryStatus(chk.result.records[k].ips[a].ip,
                                               chk.result.records[k].host)
        /\ chk.ptr.status =
                IF \E j \in 1..Len(chk.ptr.records) : chk.ptr.records[j].status = "error"
                THEN "warning" ELSE "pass"

PtrPassWithMismatch ==
    /\ chk.pc = "ptr_done"
    /\ chk.ptr.status = "pass"
    /\ \E j \in 1..Len(chk.ptr.records) : chk.ptr.records[j].status = "warning"

SoaSubCheck(type) ==
    chk.result.checks[CHOOSE k \in 1..Len(chk.result.checks) : chk.result.checks[k].type = type]

SoaInRange(type, value, low, high) ==
    SoaSubCheck(type).status = IF value >= low /\ value <= high THEN "pass" ELSE "warning"

\* C24: in the SOA check each of soa_refresh, soa_retry, soa_expire and
\* soa_minimum is pass exactly when the value lies in its range (refresh
\* 3600..86400, retry 1800..7200, expire 604800..2419200, minimum
\* 300..86400, bounds included) and warning for every value outside; the
\* serial-consistency sub-check is error when two nameservers report
\* different serials, and the overall SOA status is then error.
C24_SoaRanges ==
    (chk.pc = "soa_done" /\ chk.lookups # "soa_raises") =>
        /\ SoaInRange("soa_refresh", chk.result.record.refresh, 3600, 86400)
        /\ SoaInRange("soa_retry", chk.result.record.retry, 1800, 7200)
        /\ SoaInRange("soa_expire", chk.result.record.expire, 604800, 2419200)
        /\ SoaInRange("soa_minimum", chk.result.record.minimum, 300, 86400)
        /\ (\E j, k \in 1..Len(chk.serials) :
                chk.serials[j] # -1 /\ chk.serials[k] # -1 /\ chk.serials[j] # chk.serials[k])
            => /\ SoaSubCheck("soa_serial_consistency").status = "error"
               /\ chk.result.status = "error"

\* The same without the sub-check soa_expire: the part of C24 the code keeps.
SoaRangesButExpire ==
    (chk.pc = "soa_done" /\ chk.lookups # "soa_raises") =>
        /\ SoaInRange("soa_refresh", chk.result.record.refresh, 3600, 86400)
        /\ SoaInRange("soa_retry", chk.result.record.retry, 1800, 7200)
        /\ SoaInRange("soa_minimum", chk.result.record.minimum, 300, 86400)
        /\ chk.result.record.expire <= 2419200 =>
                SoaInRange("soa_expire", chk.result.record.expire, 604800, 2419200)
        /\ (\E j, k \in 1..Len(chk.serials) :
                chk.serials[j] # -1 /\ chk.serials[k] # -1 /\ chk.serials[j] # chk.serials[k])
            => /\ SoaSubCheck("soa_serial_consistency").status = "error"
               /\ chk.result.status = "error"

\* C25: the WWW check follows the CNAME chain of www.<domain> to a depth of
\* at most 10: for any CNAME data, a cycle included, the loop counter never
\* passes 10 and the reported cname_chain has at most 10 links.
C25_WwwChainDepth ==
    /\ chk.pc \in {"www", "www_loop", "www_done"} => chk.depth <= 10
    /\ chk.pc = "www_done" => Len(chk.result.cname_chain) <= 10

\* What the code keeps: the loop stops after 10 turns, and the reported
\* chain has at most 11 links.
WwwChainAsCoded ==
    /\ chk.pc \in {"www", "www_loop", "www_done"} => chk.depth <= max_depth
    /\ chk.pc = "www_done" => Len(chk.result.cname_chain) <= max_depth + 1

\* C26: two runs of run_all_checks on the same domain, against DNS data that
\* does not change between the runs, report the same keys in the same order
\* and the same status for every check, whatever TLD server and probe
\* subdomain each run draws.
C26_TwoRunsAgree ==
    (pc = "checker" /\ chk.pc = "twice" /\ Len(chk.reports) = 2)
        => chk.reports[1] = chk.reports[2]

\* the keys and their order do agree; only statuses depend on the draws
TwoRunsSameKeys ==
    (pc = "checker" /\ chk.pc = "twice" /\ Len(chk.reports) = 2)
        => /\ Len(chk.reports[1]) = Len(chk.reports[2])
           /\ \A k \in 1..Len(chk.reports[1]) :
                  chk.reports[1][k].key = chk.reports[2][k].key

\* the number of times of log within lo..hi
AdmittedIn(log, lo, hi) ==
    Cardinality({k \in 1..Len(log) : lo <= log[k] /\ log[k] <= hi})

\* C27: for every client IP and every sequence of requests at non-decreasing
\* times, the requests admitted within any interval of RATE_LIMIT_WINDOW
\* seconds number at most RATE_LIMIT_REQUESTS, and the request that finds
\* RATE_LIMIT_REQUESTS admitted in its window is answered 429 and not recorded.
C27_RateLimit ==
    /\ []((pc = "app" /\ app.pc = "rate") =>
            \A ip \in Clients, s \in 0..MaxTime :
                AdmittedIn(app.admitted[ip], s, s + RATE_LIMIT_WINDOW) <= RATE_LIMIT_REQUESTS)
    /\ [][(pc = "app" /\ app.pc = "rate" /\ app'.tick # app.tick) =>
            LET ip == app'.last.ip
                found == AdmittedIn(app.admitted[ip], app.now - RATE_LIMIT_WINDOW, app.now)
            IN  found >= RATE_LIMIT_REQUESTS =>
                    /\ app'.last.code = 429
                    /\ app'.admitted = app.admitted
                    /\ \A k \in 1..Len(app'.rate_limit_store[ip]) :
                           \E j \in 1..Len(app.rate_limit_store[ip]) :
                               /\ Len(app'.rate_limit_store[ip]) - k = Len(app.rate_limit_store[ip]) - j
                               /\ app'.rate_limit_store[ip][k] = app.rate_limit_store[ip][j]]_vars

\* a client that has RATE_LIMIT_REQUESTS admitted requests in its window was
\* just refused and blocked
C27_Witness ==
    /\ pc = "app"
    /\ app.pc = "rate"
    /\ app.last.code = 429
    /\ ~app.last.was_blocked
    /\ AdmittedIn(app.admitted[app.last.ip], app.now - RATE_LIMIT_WINDOW, app.now)
           = RATE_LIMIT_REQUESTS
    /\ app.blocked_ips[app.last.ip] = app.now + BLOCK_DURATION

\* C28: once a client is blocked at time t, every request of it before
\* t + BLOCK_DURATION is answered 429 and changes neither the blocked-until
\* time nor the history; its first request at or after t + BLOCK_DURATION
\* removes the block entry and is judged by the window count alone, which,
\* BLOCK_DURATION being greater than RATE_LIMIT_WINDOW, admits it.
C28_Block ==
    [][(pc = "app" /\ app.pc = "rate" /\ app'.tick # app.tick) =>
         LET ip == app'.last.ip
             t == app.now
             found == AdmittedIn(app.admitted[ip], t - RATE_LIMIT_WINDOW, t)
         IN  IF ip \in DOMAIN app.blocked_ips
             THEN IF t < app.blocked_ips[ip]
                  THEN /\ app'.last.code = 429
                       /\ app'.blocked_ips = app.blocked_ips
                       /\ app'.rate_limit_store = app.rate_limit_store
                       /\ app'.admitted = app.admitted
                  ELSE /\ app'.last.code = 200 <=> found < RATE_LIMIT_REQUESTS
                       /\ app'.last.code = 200 => ip \notin DOMAIN app'.blocked_ips
                       /\ BLOCK_DURATION > RATE_LIMIT_WINDOW =>
                              /\ app'.last.code = 200
                              /\ app'.rate_limit_store[ip] = <<t>>
             ELSE ip \in DOMAIN app'.blocked_ips =>
                      /\ app'.last.code = 429
                      /\ app'.blocked_ips[ip] = t + BLOCK_DURATION]_vars

\* a client whose block has run out was admitted, and its block entry is gone
C28_Witness ==
    /\ pc = "app"
    /\ app.pc = "rate"
    /\ app.last.was_blocked
    /\ app.last.code = 200
    /\ app.last.ip \notin DOMAIN app.blocked_ips

\* a blocked client is refused before its block runs out
BlockedRefused ==
    /\ pc = "app"
    /\ app.pc = "rate"
    /\ app.last.was_blocked
    /\ app.last.code = 429
    /\ app.now > 0

\* C29: validate_token accepts a CSRF token at most 100 times; the call that
\* exceeds the cap removes the token.
C29_AtMost100Uses ==
    (pc = "app" /\ app.pc = "csrf") => \A t \in Tokens : app.accepted[t] <= max_uses

\* as coded the comparison is made before the count is raised: a token is
\* accepted 101 times, and the call after that removes it
UsesAsCoded ==
    (pc = "app" /\ app.pc = "csrf") =>
        \A t \in Tokens :
            /\ app.accepted[t] <= max_uses + 1
            /\ t \in DOMAIN app.csrf_tokens => app.csrf_tokens[t].usage_count = app.accepted[t]

\* C30: validate_token returns True only for a token in the store; whenever it
\* returns False the token is absent from the store afterwards, and a token
\* that has left the store never comes back, so every later call for it
\* returns False.
C30_ValidateStore ==
    [][(pc = "app" /\ app.pc = "csrf") =>
         /\ \A t \in DOMAIN app.payload :
                t \notin DOMAIN app.csrf_tokens => t \notin DOMAIN app'.csrf_tokens
         /\ app'.tick # app.tick =>
                /\ app'.last.ok => app'.last.token \in DOMAIN app.csrf_tokens
                /\ ~app'.last.ok => app'.last.token \notin DOMAIN app'.csrf_tokens]_vars

\* a token that was accepted before is refused and is gone from the store
C30_Witness ==
    /\ pc = "app"
    /\ app.pc = "csrf"
    /\ ~app.last.ok
    /\ app.last.token \in DOMAIN app.payload
    /\ app.accepted[app.last.token] > 0
    /\ app.last.token \notin DOMAIN app.csrf_tokens

====
